-------------------------- MODULE DecisionRequests --------------------------
(***************************************************************************)
(* The questions a worker asks a human: from the message report of an      *)
(* attempt (runtime/operations.go) over its admission by the batch step    *)
(* (runtime/communication_admission.go) and the operator's answer          *)
(* (runtime/decision_store.go) to the invocation that resumes the run with *)
(* it (runtime/decision_resumption.go), and the plan stage that waits for  *)
(* all of this (runtime/plan_decision_hold.go).                            *)
(*                                                                         *)
(* One process drives the run (module Scheduler) and can die between any   *)
(* two of its appends.  The batch step, the operator, the owner of the     *)
(* subject a question is about and the plan pass run beside it; the plan   *)
(* pass and the batch step take turns, in one thread of the supervisor.    *)
(* Pushing, pull requests and reviewers' feedback are in CandidatePipeline;*)
(* here a head is assured or refused, and the stage consumes it.           *)
(***************************************************************************)
EXTENDS Integers, FiniteSets, Sequences, SequencesExt

CONSTANTS
  MaxRequests,       \* bound: questions the run's workers ask
  Bound,             \* the questions that name a subject of another unit
  MaxAttempts,       \* attempts of one invocation
  MaxContinuations,  \* distinct resumption bindings a run may start
  MaxHeads,          \* bound: commits of the candidate
  MaxCrashes         \* bound: deaths of the driving process

ASSUME DecisionAssumption ==
  /\ MaxRequests \in Nat \ {0} /\ Bound \subseteq 1 .. MaxRequests
  /\ MaxAttempts \in Nat \ {0} /\ MaxContinuations \in Nat \ {0}
  /\ MaxHeads \in Nat \ {0} /\ MaxCrashes \in Nat

Requests == 1 .. MaxRequests

VARIABLES
  asked,       \* how many questions were journalled; they are 1 .. asked
  observed,    \* journalled reports nobody has admitted or refused yet
  admitted,    \* questions that became messages
  superseded,  \* messages a later one replaces
  answers,     \* questions with a durable resolution
  stale,       \* questions whose subject's owner has moved on
  journal,     \* the projection of the run's journal
  ops,         \* the execution.invoke operations, by binding
  pins,        \* the decisions a resumption was admitted for, by binding
  row,         \* why the run row says the run waits or has ended
  dirty,       \* the workspace holds uncommitted work
  drive,       \* what the driving process is in the middle of
  stage,       \* what the plan pass has read of the run so far
  settled,     \* the head the plan stage completed with, 0 before
  seen,        \* history: questions whose answers a recorded attempt showed
  crashes

questions == <<asked, observed, admitted, superseded, answers, stale>>
candidate == <<journal, ops, dirty>>
planPass == <<stage, settled>>
vars == <<questions, candidate, pins, row, drive, planPass, seen, crashes>>

-----------------------------------------------------------------------------
(* Messages and their resolutions.                                          *)

Live == admitted \ superseded
OpenDecisionRequestsForRun == Live \ answers
ResolvedOwnDecisionRequests == Live \cap answers
validateLiveAndCurrent(r) == r \in Live \ stale

-----------------------------------------------------------------------------
(* Operations and the planner.                                              *)

Binding(kind, head, ids) == [kind |-> kind, head |-> head, ids |-> ids]
Initial == Binding("initial", 0, {})
Nothing == Binding("nothing", 0, {})
Bindings ==
  {Initial} \cup [kind : {"continuation", "remediation"}, head : 1 .. MaxHeads, ids : {{}}]
            \cup [kind : {"decision"}, head : 0 .. MaxHeads, ids : (SUBSET Requests) \ {{}}]
Started == DOMAIN ops

satisfied(b) == b \in Started /\ ops[b].state = "succeeded"

decisionResumeBinding(ids) == Binding("decision", journal.head, ids)

(* A resumption that has not succeeded is taken up again before a new set   *)
(* of decisions is bound.                                                   *)
Unresumed == {b \in Started : b.kind = "decision" /\ ~satisfied(b)}
deriveFresh(own) ==
  IF own \ journal.delivered = {} THEN Nothing ELSE decisionResumeBinding(own \ journal.delivered)
rebindAlways(own) == deriveFresh(own)
unresumedDecisionResumeBinding(own) ==
  IF Unresumed # {} THEN CHOOSE b \in Unresumed : TRUE ELSE deriveFresh(own)

resumeInitialOnly(own) ==
  IF journal.head = 0
  THEN IF ~satisfied(Initial) THEN Initial ELSE unresumedDecisionResumeBinding(own)
  ELSE IF ~journal.complete THEN Binding("continuation", journal.head, {})
  ELSE IF journal.verdict = "refused" THEN Binding("remediation", journal.head, {})
  ELSE Nothing
bindExecutionInvoke(own) ==
  IF journal.head = 0
  THEN IF ~satisfied(Initial) THEN Initial ELSE unresumedDecisionResumeBinding(own)
  ELSE IF ~journal.complete THEN Binding("continuation", journal.head, {})
  ELSE IF journal.verdict = "refused" THEN Binding("remediation", journal.head, {})
  ELSE unresumedDecisionResumeBinding(own)

(* The succeeded invocations whose changes nobody committed, oldest first.  *)
mutations == {b \in Started : satisfied(b) /\ ops[b].mutated /\ ~ops[b].committed}
bindCandidateCommit == CHOOSE b \in mutations : \A other \in mutations : ops[b].at <= ops[other].at

Desired(does, key) == [does |-> does, key |-> key]
plan(own) ==
  LET invoke == bindExecutionInvoke(own)
  IN  IF invoke # Nothing /\ ~satisfied(invoke) THEN Desired("invoke", invoke)
      ELSE IF mutations # {} THEN Desired("commit", bindCandidateCommit)
      ELSE IF journal.head # 0 /\ journal.complete /\ journal.verdict = "none"
           THEN Desired("assure", Nothing)
      ELSE Desired("nothing", Nothing)

isContinuationOnly(b) == b.kind = "continuation"
isResumptionBinding(b) == b.kind \in {"continuation", "decision"}
continuationCeilingReached(own) ==
  LET invoke == bindExecutionInvoke(own)
  IN  /\ isResumptionBinding(invoke) /\ invoke \notin Started
      /\ Cardinality({b \in Started : isResumptionBinding(b)}) >= MaxContinuations

-----------------------------------------------------------------------------
(* The pass of the driving process.                                         *)

Idle == [at |-> "idle", own |-> {}, key |-> Nothing, shown |-> {}, result |-> [ends |-> "none"]]
NoPass == [at |-> "idle", asked |-> 0, delivered |-> {}, head |-> 0]
Ended == {"failed", "exhausted"}

settle(reason) == row' = reason /\ drive' = Idle

(* load and conditions: the run's own resolutions are read here, once.      *)
load ==
  LET own == ResolvedOwnDecisionRequests
  IN  /\ drive.at = "idle" /\ row \notin Ended
      /\ IF continuationCeilingReached(own) THEN settle("failed")
         ELSE /\ drive' = [Idle EXCEPT !.at = plan(own).does, !.own = own, !.key = plan(own).key]
              /\ UNCHANGED row
      /\ UNCHANGED <<questions, candidate, pins, planPass, seen, crashes>>

(* The gate reads the open questions afresh; only a commit passes it.       *)
decisionWaitPermits(does) == OpenDecisionRequestsForRun = {} \/ does = "commit"

decisionPending ==
  /\ drive.at \in {"nothing", "invoke", "assure"} /\ ~decisionWaitPermits(drive.at)
  /\ settle("decision_pending")
  /\ UNCHANGED <<questions, candidate, pins, planPass, seen, crashes>>

(* Nothing is wanted.  A refused head nothing more is tried for is a failure. *)
goalReached ==
  /\ drive.at = "nothing" /\ decisionWaitPermits("nothing")
  /\ settle(IF journal.head # 0 /\ journal.verdict = "refused" THEN "failed" ELSE "goal_state_reached")
  /\ UNCHANGED <<questions, candidate, pins, planPass, seen, crashes>>

(* An attempt begins, unless the last one failed for good or the budget of  *)
(* the operation is spent.                                                  *)
Fresh == [state |-> "planned", attempt |-> 0, mutated |-> FALSE, checkpoint |-> FALSE,
          committed |-> FALSE, at |-> Cardinality(Started) + 1]
Planned(b) == IF b \in Started THEN ops[b] ELSE Fresh
Put(b, op) == [k \in Started \cup {b} |-> IF k = b THEN op ELSE ops[k]]
start(b) ==
  /\ ops' = Put(b, [Planned(b) EXCEPT !.state = "running", !.attempt = @ + 1])
  /\ drive' = [drive EXCEPT !.at = IF b.kind = "decision" THEN "admit" ELSE "compile"]
  /\ UNCHANGED row
runUnbounded ==
  /\ drive.at = "invoke" /\ decisionWaitPermits("invoke")
  /\ start(drive.key)
  /\ UNCHANGED <<questions, journal, dirty, pins, planPass, seen, crashes>>
runOperation ==
  /\ drive.at = "invoke" /\ decisionWaitPermits("invoke")
  /\ LET op == Planned(drive.key)
     IN  CASE op.attempt >= MaxAttempts ->
                settle("exhausted") /\ ops' = Put(drive.key, op)
           [] op.attempt < MaxAttempts /\ op.state = "stopped" ->
                settle("failed") /\ UNCHANGED ops
           [] OTHER -> start(drive.key)
  /\ UNCHANGED <<questions, journal, dirty, pins, planPass, seen, crashes>>

-----------------------------------------------------------------------------
(* An invocation.                                                           *)

(* An attempt that is refused before it is dispatched, to be tried again.   *)
refuse ==
  /\ ops' = [ops EXCEPT ![drive.key].state = "failed"]
  /\ drive' = Idle

(* The first attempt pins the decisions it resumes for, if a fresh read     *)
(* reproduces its binding; later attempts find the pin.                     *)
admitDecisionResumption ==
  LET b == drive.key
      undelivered == ResolvedOwnDecisionRequests \ journal.delivered
  IN  /\ drive.at = "admit"
      /\ IF \/ b \in DOMAIN pins
            \/ b = decisionResumeBinding(undelivered) /\ \A r \in undelivered : validateLiveAndCurrent(r)
         THEN /\ pins' = [k \in DOMAIN pins \cup {b} |-> IF k \in DOMAIN pins THEN pins[k] ELSE undelivered]
              /\ drive' = [drive EXCEPT !.at = "recover"]
              /\ UNCHANGED ops
         ELSE refuse /\ UNCHANGED pins
      /\ UNCHANGED <<questions, journal, dirty, row, planPass, seen, crashes>>

(* Every attempt verifies again what it is pinned to.                       *)
recoverDecisionResumptionContext ==
  /\ drive.at = "recover"
  /\ IF \A r \in pins[drive.key] : r \in answers /\ validateLiveAndCurrent(r)
     THEN drive' = [drive EXCEPT !.at = "compile"] /\ UNCHANGED ops
     ELSE refuse
  /\ UNCHANGED <<questions, journal, dirty, pins, row, planPass, seen, crashes>>

(* A resumption is shown its pin, any other invocation what is resolved now. *)
communicationContext ==
  /\ drive.at = "compile"
  /\ drive' = [drive EXCEPT !.at = "working",
                            !.shown = IF drive.key.kind = "decision" THEN pins[drive.key]
                                      ELSE ResolvedOwnDecisionRequests]
  /\ UNCHANGED <<questions, candidate, pins, row, planPass, seen, crashes>>

(* What an attempt asks: how many questions, in place of which one, and     *)
(* whether its report carries anything else, which matters in a checkpoint. *)
Silent == [asks |-> 0, replaces |-> 0, mixed |-> FALSE]
Reports(mixes) ==
  {Silent} \cup
    [asks : 1 .. MaxRequests - asked, replaces : {0} \cup admitted, mixed : mixes]
Outcome(ends, reached, mutated, report) ==
  [ends |-> ends, reached |-> reached, mutated |-> mutated, report |-> report]

(* The worker finishes, is cut off with work in the workspace, or fails     *)
(* with or without having started.  Anything uncommitted counts as its      *)
(* work; a failed attempt's workspace is emptied into the quarantine.       *)
invokeExecution ==
  /\ drive.at = "working"
  /\ \/ \E report \in Reports({FALSE}), work \in {dirty, journal.head < MaxHeads} :
          /\ dirty' = (dirty \/ work)
          /\ drive' = [drive EXCEPT !.at = "deliver",
                                    !.result = Outcome("succeeded", TRUE, dirty \/ work, report)]
     \/ \E report \in Reports(BOOLEAN) :
          /\ journal.head < MaxHeads
          /\ dirty' = TRUE
          /\ drive' = [drive EXCEPT !.at = "deliver",
                                    !.result = Outcome("checkpoint", TRUE, TRUE, report)]
     \/ \E ends \in {"failed", "stopped"}, reached \in BOOLEAN :
          /\ dirty' = FALSE
          /\ drive' = [drive EXCEPT !.at = "deliver",
                                    !.result = Outcome(ends, reached, FALSE, Silent)]
  /\ UNCHANGED <<questions, journal, ops, pins, row, planPass, seen, crashes>>

deliveredWhole(own, shown) == own
deliveredForThisRun(own, shown) == own \cap shown
decisionsToDeliver ==
  IF drive.key.kind = "decision" THEN pins[drive.key] ELSE deliveredForThisRun(drive.own, drive.shown)

(* decisions.delivered, for an attempt that reached its worker.             *)
decisionDeliveryEffect ==
  /\ drive.at = "deliver"
  /\ journal' = IF drive.result.reached
                THEN [journal EXCEPT !.delivered = @ \cup decisionsToDeliver] ELSE journal
  /\ seen' = IF drive.result.reached THEN seen \cup drive.shown ELSE seen
  /\ drive' = [drive EXCEPT !.own = {}, !.shown = {},
                            !.at = CASE drive.result.ends = "succeeded" -> "complete"
                                     [] drive.result.ends = "checkpoint" -> "observe"
                                     [] OTHER -> "finish"]
  /\ UNCHANGED <<questions, ops, pins, row, dirty, planPass, crashes>>

(* execution.completed makes the head complete, whatever the worker left.   *)
executionCompleted ==
  /\ drive.at = "complete"
  /\ journal' = [journal EXCEPT !.complete = TRUE]
  /\ drive' = [drive EXCEPT !.at = "observe"]
  /\ UNCHANGED <<questions, ops, pins, row, dirty, planPass, seen, crashes>>

(* messages.observed, for an attempt that finished or left a checkpoint.    *)
appendMessageObservation ==
  LET report == drive.result.report
  IN  /\ drive.at = "observe"
      /\ asked' = asked + report.asks
      /\ observed' = IF report = Silent THEN observed
                     ELSE Append(observed, [by |-> drive.key, asks |-> asked + 1 .. asked + report.asks,
                                            replaces |-> report.replaces, mixed |-> report.mixed,
                                            checkpoint |-> drive.result.ends = "checkpoint"])
      /\ drive' = [drive EXCEPT !.at = "finish"]
      /\ UNCHANGED <<admitted, superseded, answers, stale, candidate, pins, row, planPass, seen, crashes>>

operationAfter ==
  LET result == drive.result
  IN  /\ drive.at = "finish"
      /\ ops' = [ops EXCEPT ![drive.key] =
                   [@ EXCEPT !.state = IF result.ends = "checkpoint" THEN "succeeded" ELSE result.ends,
                             !.mutated = result.mutated, !.checkpoint = result.ends = "checkpoint"]]
      /\ drive' = Idle
      /\ UNCHANGED <<questions, journal, pins, row, dirty, planPass, seen, crashes>>

-----------------------------------------------------------------------------
(* The operations between invocations.                                      *)

(* A commit takes everything uncommitted in the name of one invocation; a   *)
(* workspace with nothing to commit is refused, now and ever after.         *)
commitCandidate ==
  LET b == drive.key
      commit == [journal EXCEPT !.head = @ + 1, !.complete = ~ops[b].checkpoint, !.verdict = "none"]
  IN  /\ drive.at = "commit"
      /\ IF dirty
         THEN /\ journal' = commit /\ dirty' = FALSE
              /\ ops' = [ops EXCEPT ![b].committed = TRUE]
              /\ drive' = Idle
              /\ row' = IF ops[b].checkpoint THEN "execution_checkpointed" ELSE row
         ELSE /\ settle("deterministic_failure_unchanged")
              /\ UNCHANGED candidate
      /\ UNCHANGED <<questions, pins, planPass, seen, crashes>>

assureCandidate ==
  /\ drive.at = "assure" /\ decisionWaitPermits("assure")
  /\ \E verdict \in {"passed", "refused"} : journal' = [journal EXCEPT !.verdict = verdict]
  /\ drive' = Idle
  /\ UNCHANGED <<questions, ops, dirty, pins, row, planPass, seen, crashes>>

(* The process dies in an attempt, which its successor takes over; before   *)
(* one it has written nothing.  The plan pass may be that process's too.    *)
crash ==
  /\ drive.at \notin {"idle", "nothing", "invoke", "commit", "assure"} /\ crashes < MaxCrashes
  /\ crashes' = crashes + 1
  /\ drive' = Idle
  /\ stage' \in {stage, NoPass}
  /\ UNCHANGED <<questions, candidate, pins, row, settled, seen>>

-----------------------------------------------------------------------------
(* Beside the driver: the batch step, the operator, another unit.           *)

checkpointCommitted(b) == ops[b].checkpoint /\ ops[b].committed
Eligible == {i \in DOMAIN observed : observed[i].checkpoint => checkpointCommitted(observed[i].by)}

(* Reports are decided in the order of the journal, each as a whole: a      *)
(* checkpoint's is trusted for questions alone, and a message is replaced   *)
(* only once.                                                               *)
decideReport(refused) ==
  /\ Eligible # {}
  /\ LET i == CHOOSE i \in Eligible : \A j \in Eligible : i <= j
         report == observed[i]
     IN  /\ observed' = RemoveAt(observed, i)
         /\ IF refused[report]
            THEN UNCHANGED <<admitted, superseded>>
            ELSE /\ admitted' = admitted \cup report.asks
                 /\ superseded' = superseded \cup ({report.replaces} \ {0})
  /\ UNCHANGED <<asked, answers, stale, candidate, pins, row, drive, planPass, seen, crashes>>
UntrustedMix(report) == report.checkpoint /\ report.mixed
ReplacesAgain(report) == report.replaces # 0 /\ report.replaces \notin Live
admitMixLater ==
  /\ stage.at = "idle" /\ \A i \in Eligible : ~UntrustedMix(observed[i])
  /\ decideReport([report \in {observed[i] : i \in DOMAIN observed} |-> ReplacesAgain(report)])
(* Variant of admitOrchestratedMessages that runs beside the plan pass. *)
admitBesidePlanPass ==
  decideReport([report \in {observed[i] : i \in DOMAIN observed} |->
                  UntrustedMix(report) \/ ReplacesAgain(report)])
admitOrchestratedMessages ==
  /\ stage.at = "idle"
  /\ decideReport([report \in {observed[i] : i \in DOMAIN observed} |->
                     UntrustedMix(report) \/ ReplacesAgain(report)])

(* The operator answers a live question about a current subject, once.      *)
ResolveDecisionRequest ==
  /\ \E r \in OpenDecisionRequestsForRun : validateLiveAndCurrent(r) /\ answers' = answers \cup {r}
  /\ UNCHANGED <<asked, observed, admitted, superseded, stale, candidate, pins, row, drive, planPass,
                 seen, crashes>>

(* The unit that owns a question's subject hands over a newer one, which    *)
(* the batch step admits.                                                   *)
handoffAdmitted ==
  /\ stage.at = "idle"
  /\ stale' = stale \cup (Bound \cap 1 .. asked) /\ stale' # stale
  /\ UNCHANGED <<asked, observed, admitted, superseded, answers, candidate, pins, row, drive, planPass,
                 seen, crashes>>

-----------------------------------------------------------------------------
(* The plan pass over the stage of the run.  It reads the run piece by      *)
(* piece while the driver and the operator go on, and ends early at the     *)
(* first piece that holds the stage.                                        *)

settleFinishedStages ==
  /\ stage.at = "idle" /\ settled = 0
  /\ row = "goal_state_reached"
  /\ stage' = [NoPass EXCEPT !.at = "open"]
  /\ UNCHANGED <<questions, candidate, pins, row, drive, settled, seen, crashes>>

(* What a read found holds the stage, or the pass reads on. *)
Reads(at, holds, next) ==
  /\ stage.at = at
  /\ stage' = IF holds THEN NoPass ELSE next
  /\ UNCHANGED <<questions, candidate, pins, row, drive, settled, seen, crashes>>

readOpen == Reads("open", OpenDecisionRequestsForRun # {}, [stage EXCEPT !.at = "events"])

(* The questions in the journal now are the ones the pass goes by. *)
readEvents ==
  Reads("events", FALSE,
        [stage EXCEPT !.at = "resolved", !.asked = asked, !.delivered = journal.delivered])

readResolved ==
  Reads("resolved", ResolvedOwnDecisionRequests \ stage.delivered # {},
        [stage EXCEPT !.at = "decided", !.delivered = {}])

(* The reports in the journal the pass read that nobody has decided yet. *)
undecidedReports == {i \in DOMAIN observed : observed[i].asks \cap 1 .. stage.asked # {}}
readDecided == Reads("decided", undecidedReports # {}, [stage EXCEPT !.at = "evidence"])

(* The journal is read once more, for the verdict on the current head. *)
stageAcceptance ==
  Reads("evidence", journal.head = 0 \/ journal.verdict # "passed",
        [stage EXCEPT !.at = "append", !.head = journal.head])

appendStageSettled ==
  /\ stage.at = "append"
  /\ settled' = stage.head /\ stage' = NoPass
  /\ UNCHANGED <<questions, candidate, pins, row, drive, seen, crashes>>

PlanPass ==
  \/ settleFinishedStages \/ readOpen \/ readEvents \/ readResolved \/ readDecided
  \/ stageAcceptance \/ appendStageSettled

-----------------------------------------------------------------------------
Init ==
  /\ asked = 0 /\ observed = <<>>
  /\ admitted = {} /\ superseded = {} /\ answers = {} /\ stale = {}
  /\ journal = [head |-> 0, complete |-> FALSE, verdict |-> "none", delivered |-> {}]
  /\ ops = <<>> /\ pins = <<>>
  /\ row = "active" /\ dirty = FALSE /\ drive = Idle
  /\ stage = NoPass /\ settled = 0 /\ seen = {} /\ crashes = 0

Drives ==
  \/ load \/ decisionPending \/ goalReached \/ runOperation
  \/ admitDecisionResumption \/ recoverDecisionResumptionContext \/ communicationContext
  \/ invokeExecution \/ decisionDeliveryEffect \/ executionCompleted
  \/ appendMessageObservation \/ operationAfter
  \/ commitCandidate \/ assureCandidate

Next ==
  \/ Drives \/ crash
  \/ admitOrchestratedMessages \/ ResolveDecisionRequest \/ handoffAdmitted \/ PlanPass

Spec == Init /\ [][Next]_vars

(* The supervisor's tick drives the run, runs the plan pass to its end and  *)
(* then the batch step, which so has its turn however often plan passes     *)
(* begin; operators and other units owe nothing.                            *)
FairSpec ==
  Spec /\ WF_vars(Drives) /\ WF_vars(PlanPass) /\ SF_vars(admitOrchestratedMessages)

-----------------------------------------------------------------------------
(* Properties.                                                              *)

(* Types: the state this module keeps.  No operation is attempted more      *)
(* often than its budget allows, crashes included (runOperation).           *)
TypeOK ==
  /\ asked \in 0 .. MaxRequests
  /\ \A i \in DOMAIN observed : observed[i].asks \subseteq 1 .. asked
  /\ admitted \subseteq 1 .. asked /\ superseded \subseteq admitted
  /\ answers \subseteq admitted /\ stale \subseteq Bound
  /\ journal \in [head : 0 .. MaxHeads, complete : BOOLEAN, verdict : {"none", "passed", "refused"},
                  delivered : SUBSET Requests]
  /\ Started \subseteq Bindings
  /\ \A b \in Started :
       ops[b] \in [state : {"planned", "running", "failed", "stopped", "succeeded"},
                   attempt : 0 .. MaxAttempts, mutated : BOOLEAN, checkpoint : BOOLEAN,
                   committed : BOOLEAN, at : 1 .. Cardinality(Started)]
  /\ DOMAIN pins \subseteq Started /\ \A b \in DOMAIN pins : pins[b] = b.ids
  /\ row \in Ended \cup {"active", "decision_pending", "goal_state_reached", "execution_checkpointed",
                         "deterministic_failure_unchanged"}
  /\ stage \in [at : {"idle", "open", "events", "resolved", "decided", "evidence", "append"},
                asked : 0 .. asked, delivered : SUBSET Requests, head : 0 .. MaxHeads]
  /\ dirty \in BOOLEAN /\ settled \in 0 .. MaxHeads /\ seen \subseteq answers
  /\ crashes \in 0 .. MaxCrashes

(* What the journal says was delivered, some recorded attempt was shown:    *)
(* decision_resumption.go never claims a delivery that did not happen, also *)
(* when a question is replaced between the load of a pass and its context.  *)
DeliveredWasShown == journal.delivered \subseteq seen

(* No decision is resumed for under two bindings, over failing attempts,    *)
(* crashes and answers that come in between (unresumedDecisionResumeBinding).*)
ResumedOnce ==
  \A b, c \in Started :
    b.kind = "decision" /\ c.kind = "decision" /\ b # c => b.ids \cap c.ids = {}

(* Resumptions for answers and continuations of checkpoints together stay   *)
(* within the one ceiling of the run (continuationCeilingReached).          *)
ResumptionsBounded ==
  Cardinality({b \in Started : b.kind \in {"continuation", "decision"}}) <= MaxContinuations

(* A plan stage completes only when every question the journal held as the  *)
(* plan pass read it was refused, was replaced, or had its answer           *)
(* delivered, whatever is asked, answered, admitted or delivered between    *)
(* the reads of awaitsHumanDecision and the append that follows them        *)
(* (plan_decision_hold.go:63, plan_reconciler.go:1625).                     *)
QuestionHoldsStage ==
  [][settled' # settled =>
       \A r \in 1 .. stage.asked :
         /\ \A i \in DOMAIN observed : r \notin observed[i].asks
         /\ r \in Live => r \in answers \cap journal.delivered]_vars

(* Once no question stays open, every answer to a question that still       *)
(* stands has reached a worker, or the run has failed: it is not lost       *)
(* between passes, crashes and bindings (bindExecutionInvoke).              *)
AnswerArrives ==
  <>[](OpenDecisionRequestsForRun = {}) =>
    []<>(answers \subseteq journal.delivered \cup superseded \cup stale \/ row \in Ended)

(* The report of a checkpoint whose invocation was taken over by another    *)
(* process before its outcome was journalled, and then finished.            *)
Orphaned ==
  \E i \in DOMAIN observed :
    observed[i].checkpoint /\ satisfied(observed[i].by) /\ ~ops[observed[i].by].checkpoint

(* Once no question stays open, the plan stage of a run that produced       *)
(* something completes, unless the run failed or can commit nothing, or a   *)
(* report is orphaned: the hold for a question is released otherwise        *)
(* (plan_decision_hold.go).                                                 *)
StageReleased ==
  <>[](OpenDecisionRequestsForRun = {} /\ journal.head # 0) =>
    []<>(settled # 0 \/ row \in Ended \cup {"deterministic_failure_unchanged"} \/ Orphaned)

-----------------------------------------------------------------------------
(* docs/planning.md: only the final accepted output of a run that owes a    *)
(* decision releases downstream work - the stage does not complete while    *)
(* the invocation that acts on the answer is under way or uncommitted.      *)
SettlesOnFinalOutput ==
  [][settled' # settled => Unresumed = {} /\ mutations = {}]_vars
=============================================================================
