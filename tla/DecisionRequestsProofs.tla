----------------------- MODULE DecisionRequestsProofs -----------------------
(***************************************************************************)
(* What the way of a question to its answer keeps, for any number of       *)
(* questions, attempts, resumptions, commits and crashes (module           *)
(* DecisionRequests): types, that a recorded delivery was shown, that no   *)
(* answer is resumed for twice, that the resumptions stay within their     *)
(* ceiling, and that a plan stage waits for every question.                *)
(*                                                                         *)
(* The driver decides on an invocation in one pass (load) and starts it in *)
(* another step; whatever it has read in between has to stand.  DriveOK    *)
(* says what does at each of its positions, ResumeOK what a resumption     *)
(* that succeeded has delivered.  The plan pass likewise reads the run     *)
(* piece by piece and writes last: StageOK says what each read leaves      *)
(* standing until the pass ends.                                           *)
(***************************************************************************)
EXTENDS DecisionRequests, FiniteSetTheorems, WellFoundedInduction, TLAPS

-----------------------------------------------------------------------------
(* The inductive invariant.                                                 *)

NoResult == [ends |-> "none"]
Outcomes ==
  [ends : {"succeeded", "checkpoint", "failed", "stopped"}, reached : BOOLEAN,
   mutated : BOOLEAN,
   report : [asks : Nat, replaces : {0} \cup admitted, mixed : BOOLEAN]]

Reported ==
  {report \in [by : Bindings, asks : SUBSET Requests, replaces : {0} \cup admitted,
               mixed : BOOLEAN, checkpoint : BOOLEAN] : report.asks \subseteq 1 .. asked}

Places ==
  {"idle", "nothing", "invoke", "commit", "assure", "admit", "recover", "compile", "working",
   "deliver", "complete", "observe", "finish"}
Attempting ==
  {"admit", "recover", "compile", "working", "deliver", "complete", "observe", "finish"}

(* The reports are a sequence, a workspace with work leaves room for the    *)
(* commit of it, and a pin holds what was answered.                         *)
DataOK ==
  /\ observed \in Seq(Reported)
  /\ dirty => journal.head < MaxHeads
  /\ \A b \in DOMAIN pins : pins[b] \subseteq answers
  /\ IsFiniteSet(Started)

(* What the driving process has in hand. *)
DriveType ==
  [at : Places, own : SUBSET Requests, key : Bindings \cup {Nothing}, shown : SUBSET answers,
   result : Outcomes \cup {NoResult}]
Finishing == {"complete", "observe", "finish"}
Reached(result) == result.ends \in {"succeeded", "checkpoint"}

DriveOK ==
  /\ drive \in DriveType
  /\ drive.at = "invoke" => drive.key \in Bindings
  /\ drive.at \in Attempting \cup {"commit"} => drive.key \in Started
  /\ drive.at \in Attempting \ {"admit"} /\ drive.key.kind = "decision" =>
       drive.key \in DOMAIN pins
  /\ drive.at \in {"working", "deliver"} /\ drive.key.kind = "decision" =>
       drive.shown = pins[drive.key]
  /\ drive.at \in Finishing \cup {"deliver"} =>
       drive.result \in Outcomes /\ (Reached(drive.result) => drive.result.reached)
  /\ drive.at \in {"deliver", "complete", "observe"} =>
       asked + drive.result.report.asks <= MaxRequests
  /\ drive.at \in Finishing /\ Reached(drive.result) /\ drive.key.kind = "decision" =>
       drive.key.ids \subseteq journal.delivered

(* A resumption that succeeded delivered what it was for; one about to be   *)
(* started for the first time is for what was not delivered, follows no     *)
(* other that has not succeeded, and is within the ceiling.                 *)
Resumptions == {b \in Started : isResumptionBinding(b)}
ResumeOK ==
  /\ \A b \in Started : b.kind = "decision" /\ satisfied(b) => b.ids \subseteq journal.delivered
  /\ drive.at = "invoke" /\ drive.key \notin Started =>
       /\ drive.key.kind = "decision" =>
            Unresumed = {} /\ drive.key.ids \cap journal.delivered = {}
       /\ isResumptionBinding(drive.key) => Cardinality(Resumptions) < MaxContinuations

(* What the reads of a plan pass leave standing: no question is open once   *)
(* none was, as only the batch step admits one; what is answered was        *)
(* delivered; and no report the pass knows of is undecided.                 *)
StageOK ==
  /\ stage.at \notin {"idle", "open"} => Live \subseteq answers
  /\ stage.at = "resolved" => stage.delivered \subseteq journal.delivered
  /\ stage.at \in {"decided", "evidence", "append"} => Live \subseteq journal.delivered
  /\ stage.at \in {"evidence", "append"} =>
       \A i \in DOMAIN observed : observed[i].asks \cap 1 .. stage.asked = {}

DecisionInv ==
  /\ TypeOK /\ DataOK /\ DriveOK /\ ResumeOK /\ StageOK
  /\ DeliveredWasShown /\ ResumedOnce /\ ResumptionsBounded

-----------------------------------------------------------------------------
(* The planner.                                                             *)

LEMMA Least ==
  ASSUME NEW S \in SUBSET Nat, S # {}
  PROVE  \E x \in S : \A y \in S : x <= y
<1>1. PICK x \in S : \A y \in S : ~(<<y, x>> \in OpToRel(<, Nat))
  BY NatLessThanWellFounded, WFMin, Zenon
<1>2. \A y \in S : ~(y < x)
  BY <1>1 DEF OpToRel
<1> QED
  BY <1>2

OpType(n) ==
  [state : {"planned", "running", "failed", "stopped", "succeeded"}, attempt : 0 .. MaxAttempts,
   mutated : BOOLEAN, checkpoint : BOOLEAN, committed : BOOLEAN, at : 1 .. n]

LEMMA BindingsMade ==
  ASSUME TypeOK, NEW own \in SUBSET Requests
  PROVE  /\ bindExecutionInvoke(own) \in Bindings \cup {Nothing}
         /\ deriveFresh(own) \in Bindings \cup {Nothing}
<1>0. /\ journal.head \in 0 .. MaxHeads /\ journal.delivered \subseteq Requests
      /\ journal.complete \in BOOLEAN
  BY DEF TypeOK
<1>1. deriveFresh(own) \in Bindings \cup {Nothing}
  <2>1. CASE own \ journal.delivered = {}
    BY <2>1 DEF deriveFresh
  <2>2. CASE own \ journal.delivered # {}
    BY <1>0, <2>2 DEF deriveFresh, decisionResumeBinding, Binding, Bindings
  <2> QED
    BY <2>1, <2>2
<1>2. unresumedDecisionResumeBinding(own) \in Bindings \cup {Nothing}
  <2>1. CASE Unresumed # {}
    <3>1. (CHOOSE b \in Unresumed : TRUE) \in Started
      BY <2>1 DEF Unresumed
    <3> QED
      BY <2>1, <3>1 DEF unresumedDecisionResumeBinding, TypeOK
  <2> QED
    BY <1>1, <2>1 DEF unresumedDecisionResumeBinding
<1>3. Initial \in Bindings
  BY DEF Bindings
<1>4. journal.head # 0 => /\ Binding("continuation", journal.head, {}) \in Bindings
                          /\ Binding("remediation", journal.head, {}) \in Bindings
  BY <1>0, DecisionAssumption DEF Binding, Bindings
<1> QED
  BY <1>0, <1>1, <1>2, <1>3, <1>4 DEF bindExecutionInvoke, satisfied

(* A resumption that was never started is bound only when every one that    *)
(* was has succeeded, and to what no delivery covers.                       *)
LEMMA FreshBinding ==
  ASSUME TypeOK, NEW own \in SUBSET Requests,
         bindExecutionInvoke(own).kind = "decision", bindExecutionInvoke(own) \notin Started
  PROVE  Unresumed = {} /\ bindExecutionInvoke(own).ids \cap journal.delivered = {}
<1> DEFINE b == bindExecutionInvoke(own)
<1>1. b = unresumedDecisionResumeBinding(own)
  BY DEF bindExecutionInvoke, Initial, Binding, Nothing
<1>2. Unresumed = {}
  <2> SUFFICES ASSUME Unresumed # {} PROVE FALSE
    OBVIOUS
  <2>1. (CHOOSE x \in Unresumed : TRUE) \in Started
    BY DEF Unresumed
  <2> QED
    BY <1>1, <2>1 DEF unresumedDecisionResumeBinding
<1>3. b = deriveFresh(own)
  BY <1>1, <1>2 DEF unresumedDecisionResumeBinding
<1>4. b = decisionResumeBinding(own \ journal.delivered)
  BY <1>3 DEF deriveFresh, Nothing, Binding
<1> QED
  BY <1>2, <1>4 DEF decisionResumeBinding, Binding

(* What a pass sets out to do. *)
LEMMA PlanMade ==
  ASSUME TypeOK, NEW own \in SUBSET Requests
  PROVE  /\ plan(own).does \in {"invoke", "commit", "assure", "nothing"}
         /\ plan(own).key \in Bindings \cup {Nothing}
         /\ plan(own).does = "invoke" =>
              plan(own).key = bindExecutionInvoke(own) /\ plan(own).key \in Bindings
         /\ plan(own).does = "commit" => plan(own).key \in Started
<1> DEFINE invoke == bindExecutionInvoke(own)
<1>0. journal.complete \in BOOLEAN
  BY DEF TypeOK
<1>1. invoke \in Bindings \cup {Nothing}
  BY BindingsMade
<1>2. mutations # {} => bindCandidateCommit \in Started
  <2> SUFFICES ASSUME mutations # {} PROVE bindCandidateCommit \in mutations
    BY DEF mutations
  <2> DEFINE S == {ops[b].at : b \in mutations}
  <2>1. \A b \in mutations : ops[b].at \in Nat
    BY DEF mutations, TypeOK
  <2>2. S \in SUBSET Nat /\ S # {}
    BY <2>1
  <2>3. PICK x \in S : \A y \in S : x <= y
    BY <2>2, Least
  <2>4. \E b \in mutations : \A other \in mutations : ops[b].at <= ops[other].at
    BY <2>3
  <2> QED
    BY <2>4 DEF bindCandidateCommit
<1>3. CASE invoke # Nothing /\ ~satisfied(invoke)
  <2>1. plan(own) = Desired("invoke", invoke)
    BY <1>0, <1>3 DEF plan, satisfied
  <2> QED
    BY <1>1, <1>3, <2>1 DEF Desired
<1>4. CASE ~(invoke # Nothing /\ ~satisfied(invoke)) /\ mutations # {}
  <2>1. plan(own) = Desired("commit", bindCandidateCommit)
    BY <1>0, <1>4 DEF plan, satisfied
  <2> QED
    BY <1>2, <1>4, <2>1 DEF Desired, TypeOK
<1>5. CASE ~(invoke # Nothing /\ ~satisfied(invoke)) /\ mutations = {}
  <2>1. plan(own) \in {Desired("assure", Nothing), Desired("nothing", Nothing)}
    BY <1>0, <1>5 DEF plan, satisfied
  <2> QED
    BY <2>1 DEF Desired
<1> QED
  BY <1>3, <1>4, <1>5

-----------------------------------------------------------------------------
(* What each step leaves alone.                                             *)

LEMMA Frames ==
  ASSUME Next
  PROVE  /\ \/ journal' = journal
            \/ decisionDeliveryEffect \/ executionCompleted \/ commitCandidate \/ assureCandidate
         /\ \/ ops' = ops
            \/ runOperation \/ admitDecisionResumption \/ recoverDecisionResumptionContext
            \/ operationAfter \/ commitCandidate
         /\ pins' = pins \/ admitDecisionResumption
         /\ seen' = seen \/ decisionDeliveryEffect
         /\ asked' = asked \/ appendMessageObservation
         /\ observed' = observed \/ appendMessageObservation \/ admitOrchestratedMessages
         /\ (admitted' = admitted /\ superseded' = superseded) \/ admitOrchestratedMessages
         /\ answers' = answers \/ ResolveDecisionRequest
         /\ stale' = stale \/ handoffAdmitted
         /\ dirty' = dirty \/ invokeExecution \/ commitCandidate
         /\ crashes' = crashes \/ crash
         /\ settled' = settled \/ appendStageSettled
         /\ stage' = stage \/ PlanPass \/ (crash /\ stage' = NoPass)
         /\ drive' = drive \/ Drives \/ crash
<1> USE DEF questions, candidate, planPass, settle, start, refuse, decideReport
<1>1. CASE load
  BY <1>1 DEF load, Drives
<1>2. CASE decisionPending
  BY <1>2 DEF decisionPending, Drives
<1>3. CASE goalReached
  BY <1>3 DEF goalReached, Drives
<1>4. CASE runOperation
  BY <1>4 DEF runOperation, Drives
<1>5. CASE admitDecisionResumption
  BY <1>5 DEF admitDecisionResumption, Drives
<1>6. CASE recoverDecisionResumptionContext
  BY <1>6 DEF recoverDecisionResumptionContext, Drives
<1>7. CASE communicationContext
  BY <1>7 DEF communicationContext, Drives
<1>8. CASE invokeExecution
  BY <1>8 DEF invokeExecution, Drives
<1>9. CASE decisionDeliveryEffect
  BY <1>9 DEF decisionDeliveryEffect, Drives
<1>10. CASE executionCompleted
  BY <1>10 DEF executionCompleted, Drives
<1>11. CASE appendMessageObservation
  BY <1>11 DEF appendMessageObservation, Drives
<1>12. CASE operationAfter
  BY <1>12 DEF operationAfter, Drives
<1>13. CASE commitCandidate
  BY <1>13 DEF commitCandidate, Drives
<1>14. CASE assureCandidate
  BY <1>14 DEF assureCandidate, Drives
<1>15. CASE crash
  BY <1>15 DEF crash
<1>16. CASE admitOrchestratedMessages
  BY <1>16 DEF admitOrchestratedMessages
<1>17. CASE ResolveDecisionRequest
  BY <1>17 DEF ResolveDecisionRequest
<1>18. CASE handoffAdmitted
  BY <1>18 DEF handoffAdmitted
<1>19. CASE PlanPass
  BY <1>19 DEF PlanPass, settleFinishedStages, Reads, readOpen, readEvents, readResolved, readDecided,
       stageAcceptance, appendStageSettled
<1> QED
  BY <1>1, <1>2, <1>3, <1>4, <1>5, <1>6, <1>7, <1>8, <1>9, <1>10, <1>11, <1>12, <1>13, <1>14,
     <1>15, <1>16, <1>17, <1>18, <1>19 DEF Next, Drives

(* The plan pass writes nothing but its own memory, and in the end the      *)
(* settlement.                                                              *)
LEMMA PassFrame ==
  ASSUME PlanPass
  PROVE  UNCHANGED <<asked, observed, admitted, superseded, answers, stale, journal, ops, dirty, pins,
                     row, drive, seen, crashes>>
  BY DEF PlanPass, settleFinishedStages, Reads, readOpen, readEvents, readResolved, readDecided,
       stageAcceptance, appendStageSettled, questions, candidate

-----------------------------------------------------------------------------
(* The operations.                                                          *)

LEMMA OpWider ==
  ASSUME NEW m \in Nat, NEW n \in Nat, m <= n, NEW op \in OpType(m)
  PROVE  op \in OpType(n)
<1>1. 1 .. m \subseteq 1 .. n
  OBVIOUS
<1> QED
  BY <1>1 DEF OpType

LEMMA OpStarted ==
  ASSUME NEW n \in Nat, NEW op \in OpType(n), op.attempt < MaxAttempts
  PROVE  [op EXCEPT !.state = "running", !.attempt = @ + 1] \in OpType(n)
<1>1. op.attempt + 1 \in 0 .. MaxAttempts
  BY DecisionAssumption DEF OpType
<1> QED
  BY <1>1 DEF OpType

(* An invocation that is started for the first time joins the others. *)
LEMMA RunStep ==
  ASSUME TypeOK, DataOK, DriveOK, runOperation
  PROVE  /\ drive.key \in Bindings
         /\ \/ Started' = Started
            \/ drive.key \notin Started /\ Started' = Started \cup {drive.key}
         /\ IsFiniteSet(Started')
         /\ drive'.at \notin {"idle", "invoke"} => drive.key \in Started'
         /\ \A b \in Started' : ops'[b] \in OpType(Cardinality(Started'))
         /\ \A b \in Started' : ops'[b].state = "succeeded" => b \in Started /\ ops[b].state = "succeeded"
<1> DEFINE b == drive.key
           op == Planned(b)
           n == Cardinality(Started)
           m == Cardinality(Started \cup {b})
<1>0. /\ drive.at = "invoke" /\ b \in Bindings /\ IsFiniteSet(Started)
      /\ \A k \in Started : ops[k] \in OpType(n)
  BY DEF runOperation, TypeOK, DataOK, DriveOK, OpType
<1>1. n \in Nat /\ IsFiniteSet(Started \cup {b}) /\ m = IF b \in Started THEN n ELSE n + 1
  BY <1>0, FS_CardinalityType, FS_AddElement
<1>2. op \in OpType(m) /\ (b \notin Started => op.attempt = 0 /\ op.state = "planned")
  <2>1. CASE b \in Started
    BY <1>0, <1>1, <2>1 DEF Planned
  <2>2. CASE b \notin Started
    <3>1. n + 1 \in 1 .. m /\ 0 \in 0 .. MaxAttempts
      BY <1>1, <2>2, DecisionAssumption
    <3>2. op = Fresh
      BY <2>2 DEF Planned
    <3>3. Fresh.attempt = 0 /\ Fresh.state = "planned"
      BY DEF Fresh
    <3>4. Fresh \in OpType(m)
      BY <3>1 DEF Fresh, OpType
    <3> QED
      BY <3>2, <3>3, <3>4
  <2> QED
    BY <2>1, <2>2
<1>3. \A k \in Started : ops[k] \in OpType(m)
  BY <1>0, <1>1, OpWider
<1>4. op.attempt \in Nat /\ MaxAttempts \in Nat \ {0}
  BY <1>2, DecisionAssumption DEF OpType
<1>5. \/ settle("exhausted") /\ ops' = Put(b, op) /\ b \in Started
      \/ settle("failed") /\ ops' = ops
      \/ start(b) /\ op.attempt < MaxAttempts
  BY <1>2, <1>4 DEF runOperation
<1>6. CASE settle("exhausted") /\ ops' = Put(b, op) /\ b \in Started
  <2>1. Started' = Started /\ \A k \in Started : ops'[k] = ops[k]
    BY <1>6 DEF Put, Planned, Started
  <2>2. drive'.at = "idle"
    BY <1>6 DEF settle, Idle
  <2> QED
    BY <1>0, <2>1, <2>2
<1>7. CASE settle("failed") /\ ops' = ops
  <2>1. drive'.at = "idle"
    BY <1>7 DEF settle, Idle
  <2> QED
    BY <1>0, <1>7, <2>1 DEF Started
<1>8. CASE start(b) /\ op.attempt < MaxAttempts
  <2> DEFINE started == [op EXCEPT !.state = "running", !.attempt = @ + 1]
  <2>1. started \in OpType(m) /\ started.state = "running"
    <3>0. m \in Nat
      BY <1>1
    <3>1. started \in OpType(m)
      <4> HIDE DEF m, op
      <4> QED
        BY <1>2, <1>8, <3>0, OpStarted
    <3> QED
      BY <1>2, <3>1 DEF OpType
  <2>2. ops' = Put(b, started)
    BY <1>8 DEF start
  <2>3. Started' = Started \cup {b} /\ ops'[b] = started /\ \A k \in Started \ {b} : ops'[k] = ops[k]
    BY <2>2 DEF Put, Started
  <2> QED
    BY <1>0, <1>1, <1>3, <2>1, <2>3
<1> QED
  BY <1>5, <1>6, <1>7, <1>8

LEMMA RefuseStep ==
  ASSUME TypeOK, refuse, drive.key \in Started
  PROVE  /\ Started' = Started
         /\ \A b \in Started' : ops'[b] \in OpType(Cardinality(Started'))
         /\ \A b \in Started' : ops'[b].state = "succeeded" => ops[b].state = "succeeded"
<1> DEFINE b == drive.key
           n == Cardinality(Started)
<1>1. Started' = Started /\ ops'[b] = [ops[b] EXCEPT !.state = "failed"]
      /\ \A k \in Started \ {b} : ops'[k] = ops[k]
  BY DEF refuse, Started
<1>2. \A k \in Started : ops[k] \in OpType(n)
  BY DEF TypeOK, OpType
<1>3. [ops[b] EXCEPT !.state = "failed"] \in OpType(n)
      /\ [ops[b] EXCEPT !.state = "failed"].state = "failed"
  BY <1>2 DEF OpType
<1> QED
  BY <1>1, <1>2, <1>3

LEMMA AfterStep ==
  ASSUME TypeOK, DriveOK, operationAfter
  PROVE  /\ drive.key \in Started /\ Started' = Started
         /\ \A b \in Started' : ops'[b] \in OpType(Cardinality(Started'))
         /\ \A b \in Started' : ops'[b].state = "succeeded" =>
              ops[b].state = "succeeded" \/ (b = drive.key /\ Reached(drive.result))
<1> DEFINE b == drive.key
           n == Cardinality(Started)
           result == drive.result
           state == IF result.ends = "checkpoint" THEN "succeeded" ELSE result.ends
           after == [ops[b] EXCEPT !.state = state, !.mutated = result.mutated,
                                   !.checkpoint = result.ends = "checkpoint"]
<1>0. b \in Started /\ result \in Outcomes
  BY DEF operationAfter, DriveOK, Attempting, Finishing
<1>1. Started' = Started /\ ops'[b] = after /\ \A k \in Started \ {b} : ops'[k] = ops[k]
  BY <1>0 DEF operationAfter, Started
<1>2. \A k \in Started : ops[k] \in OpType(n)
  BY DEF TypeOK, OpType
<1>3. result.ends \in {"succeeded", "checkpoint", "failed", "stopped"} /\ result.mutated \in BOOLEAN
  BY <1>0 DEF Outcomes
<1>4. after \in OpType(n)
  <2>1. state \in {"planned", "running", "failed", "stopped", "succeeded"}
    BY <1>3
  <2>2. ops[b] \in OpType(n)
    BY <1>0, <1>2
  <2>3. (result.ends = "checkpoint") \in BOOLEAN
    OBVIOUS
  <2> HIDE DEF state, n
  <2> QED
    BY <1>3, <2>1, <2>2, <2>3 DEF OpType
<1>5. after.state = "succeeded" => Reached(result)
  BY <1>0, <1>2, <1>3 DEF OpType, Reached
<1> QED
  BY <1>0, <1>1, <1>2, <1>4, <1>5

LEMMA CommitOps ==
  ASSUME TypeOK, DriveOK, commitCandidate
  PROVE  /\ Started' = Started
         /\ \A b \in Started' : ops'[b] \in OpType(Cardinality(Started'))
         /\ \A b \in Started' : ops'[b].state = "succeeded" => ops[b].state = "succeeded"
<1> DEFINE b == drive.key
           n == Cardinality(Started)
<1>2. \A k \in Started : ops[k] \in OpType(n)
  BY DEF TypeOK, OpType
<1>3. CASE dirty
  <2>0. b \in Started
    BY DEF commitCandidate, DriveOK
  <2>1. ops' = [ops EXCEPT ![b].committed = TRUE]
    BY <1>3 DEF commitCandidate
  <2>3. Started' = Started /\ ops'[b] = [ops[b] EXCEPT !.committed = TRUE]
        /\ \A k \in Started \ {b} : ops'[k] = ops[k]
    BY <2>0, <2>1 DEF Started
  <2>2. [ops[b] EXCEPT !.committed = TRUE] \in OpType(n)
        /\ [ops[b] EXCEPT !.committed = TRUE].state = ops[b].state
    BY <1>2, <2>0 DEF OpType
  <2> QED
    BY <1>2, <2>0, <2>3, <2>2
<1>4. CASE ~dirty
  <2>1. ops' = ops
    BY <1>4 DEF commitCandidate, candidate
  <2> QED
    BY <1>2, <2>1 DEF Started
<1> QED
  BY <1>3, <1>4

(* All of them together. *)
LEMMA OpsStep ==
  ASSUME TypeOK, DataOK, DriveOK, Next
  PROVE  /\ \/ Started' = Started
            \/ /\ runOperation /\ drive.key \in Bindings
               /\ drive.key \notin Started /\ Started' = Started \cup {drive.key}
         /\ IsFiniteSet(Started')
         /\ \A b \in Started' : ops'[b] \in OpType(Cardinality(Started'))
         /\ \A b \in Started' : ops'[b].state = "succeeded" =>
              /\ b \in Started
              /\ \/ ops[b].state = "succeeded"
                 \/ operationAfter /\ b = drive.key /\ Reached(drive.result)
<1>0. IsFiniteSet(Started)
  BY DEF DataOK
<1>1. CASE ops' = ops
  BY <1>0, <1>1 DEF TypeOK, OpType, Started
<1>2. CASE runOperation
  BY <1>2, RunStep
<1>3. CASE admitDecisionResumption
  <2>1. drive.key \in Started /\ (ops' = ops \/ refuse)
    BY <1>3 DEF admitDecisionResumption, DriveOK, Attempting
  <2> QED
    BY <1>0, <1>1, <2>1, RefuseStep
<1>4. CASE recoverDecisionResumptionContext
  <2>1. drive.key \in Started /\ (ops' = ops \/ refuse)
    BY <1>4 DEF recoverDecisionResumptionContext, DriveOK, Attempting
  <2> QED
    BY <1>0, <1>1, <2>1, RefuseStep
<1>5. CASE operationAfter
  BY <1>0, <1>5, AfterStep
<1>6. CASE commitCandidate
  BY <1>0, <1>6, CommitOps
<1> QED
  BY <1>1, <1>2, <1>3, <1>4, <1>5, <1>6, Frames

-----------------------------------------------------------------------------
(* The journal and the workspace.                                           *)

JournalType ==
  [head : 0 .. MaxHeads, complete : BOOLEAN, verdict : {"none", "passed", "refused"},
   delivered : SUBSET Requests]

(* A delivery covers nothing the attempt was not shown. *)
LEMMA Delivers ==
  ASSUME TypeOK, DriveOK, drive.at = "deliver"
  PROVE  decisionsToDeliver \subseteq drive.shown /\ drive.shown \subseteq answers
<1>1. drive.shown \subseteq answers
  BY DEF DriveOK, DriveType
<1>2. CASE drive.key.kind = "decision"
  BY <1>1, <1>2 DEF decisionsToDeliver, DriveOK
<1>3. CASE drive.key.kind # "decision"
  BY <1>1, <1>3 DEF decisionsToDeliver, deliveredForThisRun
<1> QED
  BY <1>2, <1>3, <1>1

LEMMA Asking ==
  ASSUME TypeOK
  PROVE  /\ answers \subseteq Requests /\ admitted \subseteq Requests
         /\ 1 .. asked \subseteq Requests /\ asked \in Nat /\ MaxRequests \in Nat
  BY DecisionAssumption DEF TypeOK, Requests

LEMMA JournalStep ==
  ASSUME TypeOK, DataOK, DriveOK, Next
  PROVE  /\ journal' \in JournalType
         /\ journal.delivered \subseteq journal'.delivered
         /\ journal'.delivered = journal.delivered \/ decisionDeliveryEffect
         /\ dirty' \in BOOLEAN /\ (dirty' => journal'.head < MaxHeads)
<1>0. journal \in JournalType /\ dirty \in BOOLEAN /\ (dirty => journal.head < MaxHeads)
  BY DEF TypeOK, DataOK, JournalType
<1>1. CASE journal' = journal
  <2>1. CASE dirty' = dirty
    BY <1>0, <1>1, <2>1
  <2>2. CASE invokeExecution
    <3>1. \/ \E work \in {dirty, journal.head < MaxHeads} : dirty' = (dirty \/ work)
          \/ dirty' = TRUE /\ journal.head < MaxHeads
          \/ dirty' = FALSE
      BY <2>2 DEF invokeExecution
    <3>2. dirty' \in BOOLEAN /\ (dirty' => journal.head < MaxHeads)
      <4>1. CASE \E work \in {dirty, journal.head < MaxHeads} : dirty' = (dirty \/ work)
        <5>1. PICK work \in {dirty, journal.head < MaxHeads} : dirty' = (dirty \/ work)
          BY <4>1
        <5>2. CASE work = dirty
          BY <1>0, <5>1, <5>2
        <5>3. CASE work = (journal.head < MaxHeads)
          BY <1>0, <5>1, <5>3
        <5> QED
          BY <5>1, <5>2, <5>3
      <4> QED
        BY <1>0, <3>1, <4>1
    <3> QED
      BY <1>0, <1>1, <3>2
  <2>3. CASE commitCandidate
    <3>1. CASE dirty
      BY <1>0, <1>1, <2>3, <3>1 DEF commitCandidate
    <3>2. CASE ~dirty
      BY <1>0, <1>1, <2>3, <3>2 DEF commitCandidate, candidate
    <3> QED
      BY <3>1, <3>2
  <2> QED
    BY <2>1, <2>2, <2>3, Frames
<1>2. CASE decisionDeliveryEffect
  <2>1. decisionsToDeliver \subseteq Requests
    BY <1>2, Delivers, Asking DEF decisionDeliveryEffect
  <2>2. dirty' = dirty
    BY <1>2 DEF decisionDeliveryEffect
  <2>3. journal' = journal \/ journal' = [journal EXCEPT !.delivered = @ \cup decisionsToDeliver]
    BY <1>2 DEF decisionDeliveryEffect
  <2> QED
    BY <1>0, <1>2, <2>1, <2>2, <2>3 DEF JournalType
<1>3. CASE executionCompleted
  BY <1>0, <1>3 DEF executionCompleted, JournalType
<1>4. CASE commitCandidate /\ dirty
  <2>1. journal' = [journal EXCEPT !.head = @ + 1, !.complete = ~ops[drive.key].checkpoint,
                                   !.verdict = "none"]
    BY <1>4 DEF commitCandidate
  <2>2. journal.head + 1 \in 0 .. MaxHeads /\ (~ops[drive.key].checkpoint) \in BOOLEAN
    BY <1>0, <1>4, DecisionAssumption DEF JournalType
  <2>3. dirty' = FALSE
    BY <1>4 DEF commitCandidate
  <2> QED
    BY <1>0, <2>1, <2>2, <2>3 DEF JournalType
<1>5. CASE assureCandidate
  BY <1>0, <1>5 DEF assureCandidate, JournalType
<1>6. CASE commitCandidate /\ ~dirty
  BY <1>1, <1>6 DEF commitCandidate, candidate
<1> QED
  BY <1>1, <1>2, <1>3, <1>4, <1>5, <1>6, Frames

-----------------------------------------------------------------------------
(* The pins.                                                                *)

LEMMA PinsStep ==
  ASSUME TypeOK, DataOK, DriveOK, Next
  PROVE  /\ DOMAIN pins \subseteq DOMAIN pins'
         /\ \A b \in DOMAIN pins : pins'[b] = pins[b]
         /\ DOMAIN pins' \subseteq Started'
         /\ \A b \in DOMAIN pins' : pins'[b] = b.ids /\ pins'[b] \subseteq answers'
<1>0. Started \subseteq Started'
  BY OpsStep
<1>1. /\ DOMAIN pins \subseteq Started
      /\ \A b \in DOMAIN pins : pins[b] = b.ids /\ pins[b] \subseteq answers
  BY DEF TypeOK, DataOK
<1>2. CASE pins' = pins
  <2>1. answers \subseteq answers'
    BY Frames DEF ResolveDecisionRequest
  <2> QED
    BY <1>0, <1>1, <1>2, <2>1
<1>3. CASE admitDecisionResumption
  <2> DEFINE b == drive.key
             undelivered == ResolvedOwnDecisionRequests \ journal.delivered
  <2>1. b \in Started /\ answers' = answers
    BY <1>3 DEF admitDecisionResumption, DriveOK, Attempting, questions
  <2>2. pins' = pins \/
          /\ pins' = [k \in DOMAIN pins \cup {b} |-> IF k \in DOMAIN pins THEN pins[k] ELSE undelivered]
          /\ b \in DOMAIN pins \/ b = decisionResumeBinding(undelivered)
    BY <1>3 DEF admitDecisionResumption
  <2>3. undelivered \subseteq answers
    BY DEF ResolvedOwnDecisionRequests
  <2>4. b = decisionResumeBinding(undelivered) => b.ids = undelivered
    BY DEF decisionResumeBinding, Binding
  <2> HIDE DEF b, undelivered
  <2>5. CASE pins' # pins
    BY <1>0, <1>1, <2>1, <2>2, <2>3, <2>4, <2>5
  <2> QED
    BY <1>2, <2>5
<1> QED
  BY <1>2, <1>3, Frames

-----------------------------------------------------------------------------
(* The questions.                                                           *)

LEMMA Removed ==
  ASSUME NEW S, NEW s \in Seq(S), NEW i \in 1 .. Len(s)
  PROVE  RemoveAt(s, i) \in Seq(S)
  BY DEF RemoveAt

LEMMA ReportMade ==
  ASSUME NEW by \in Bindings, NEW asks \in SUBSET Requests, NEW n, asks \subseteq 1 .. n,
         NEW A, NEW replaces \in A, NEW mixed \in BOOLEAN, NEW checkpoint \in BOOLEAN
  PROVE  [by |-> by, asks |-> asks, replaces |-> replaces, mixed |-> mixed, checkpoint |-> checkpoint]
           \in {report \in [by : Bindings, asks : SUBSET Requests, replaces : A, mixed : BOOLEAN,
                            checkpoint : BOOLEAN] : report.asks \subseteq 1 .. n}
  OBVIOUS

LEMMA QuestionsStep ==
  ASSUME TypeOK, DataOK, DriveOK, Next
  PROVE  /\ asked' \in 0 .. MaxRequests /\ asked <= asked'
         /\ admitted \subseteq admitted' /\ answers \subseteq answers'
         /\ admitted' \subseteq 1 .. asked' /\ superseded' \subseteq admitted'
         /\ answers' \subseteq admitted' /\ stale' \subseteq Bound
         /\ observed' \in Seq(Reported')
         /\ \A i \in DOMAIN observed' : observed'[i].asks \subseteq 1 .. asked'
<1>0. /\ asked \in 0 .. MaxRequests /\ admitted \subseteq 1 .. asked /\ superseded \subseteq admitted
      /\ answers \subseteq admitted /\ stale \subseteq Bound /\ observed \in Seq(Reported)
      /\ asked \in Nat /\ MaxRequests \in Nat
  BY DecisionAssumption DEF TypeOK, DataOK
<1>1. /\ asked' \in 0 .. MaxRequests /\ asked <= asked'
  <2>1. CASE appendMessageObservation
    <3>1. /\ asked' = asked + drive.result.report.asks
          /\ asked + drive.result.report.asks <= MaxRequests /\ drive.result \in Outcomes
      BY <2>1 DEF appendMessageObservation, DriveOK, Finishing
    <3>2. drive.result.report.asks \in Nat
      BY <3>1 DEF Outcomes
    <3> QED
      BY <1>0, <3>1, <3>2
  <2> QED
    BY <1>0, <2>1, Frames
<1>2. /\ admitted \subseteq admitted' /\ superseded' \subseteq admitted'
      /\ admitted' \subseteq 1 .. asked'
      /\ admitOrchestratedMessages =>
           observed' \in Seq(Reported)
  <2>1. CASE admitOrchestratedMessages
    <3> DEFINE i == CHOOSE i \in Eligible : \A j \in Eligible : i <= j
               report == observed[i]
    <3>1. asked' = asked /\ Eligible # {}
      BY <2>1 DEF admitOrchestratedMessages, decideReport
    <3>2. DOMAIN observed = 1 .. Len(observed) /\ Len(observed) \in Nat
      BY <1>0
    <3>3. Eligible \in SUBSET Nat
      BY <3>2 DEF Eligible
    <3>4. \E j \in Eligible : \A k \in Eligible : j <= k
      BY <3>1, <3>3, Least
    <3>5. i \in DOMAIN observed
      BY <3>4 DEF Eligible
    <3>6. report \in Reported
      BY <1>0, <3>2, <3>5
    <3>7. report.asks \subseteq 1 .. asked /\ report.replaces \in {0} \cup admitted
      BY <3>6 DEF Reported
    <3>8. /\ observed' = RemoveAt(observed, i)
          /\ \/ admitted' = admitted /\ superseded' = superseded
             \/ /\ admitted' = admitted \cup report.asks
                /\ superseded' = superseded \cup ({report.replaces} \ {0})
      BY <2>1 DEF admitOrchestratedMessages, decideReport
    <3> HIDE DEF report
    <3>9. /\ admitted \subseteq admitted' /\ superseded' \subseteq admitted'
          /\ admitted' \subseteq 1 .. asked'
      BY <1>0, <3>1, <3>7, <3>8
    <3>10. RemoveAt(observed, i) \in Seq(Reported)
      <4> HIDE DEF i
      <4> QED
        BY <1>0, <3>5, <3>2, Removed
    <3> QED
      BY <3>8, <3>9, <3>10
  <2>2. CASE ~admitOrchestratedMessages
    <3>1. admitted' = admitted /\ superseded' = superseded
      BY <2>2, Frames
    <3>2. 1 .. asked \subseteq 1 .. asked'
      BY <1>0, <1>1
    <3> QED
      BY <1>0, <2>2, <3>1, <3>2
  <2> QED
    BY <2>1, <2>2
<1>3. Reported \subseteq Reported'
  <2>1. 1 .. asked \subseteq 1 .. asked' /\ {0} \cup admitted \subseteq {0} \cup admitted'
    BY <1>0, <1>1, <1>2
  <2> QED
    BY <2>1 DEF Reported
<1>4. observed' \in Seq(Reported')
  <2>1. CASE appendMessageObservation
    <3> DEFINE report == drive.result.report
               new == [by |-> drive.key, asks |-> asked + 1 .. asked + report.asks,
                       replaces |-> report.replaces, mixed |-> report.mixed,
                       checkpoint |-> drive.result.ends = "checkpoint"]
    <3>1. /\ drive.at = "observe" /\ asked' = asked + report.asks
          /\ observed' = observed \/ observed' = Append(observed, new)
          /\ admitted' = admitted
      BY <2>1 DEF appendMessageObservation
    <3>2. drive.key \in Bindings /\ drive.result \in Outcomes
      BY <3>1 DEF DriveOK, TypeOK, Attempting, Finishing
    <3>3. report \in [asks : Nat, replaces : {0} \cup admitted, mixed : BOOLEAN]
      BY <3>2 DEF Outcomes
    <3>4. /\ asked + 1 .. asked + report.asks \subseteq Requests
          /\ asked + 1 .. asked + report.asks \subseteq 1 .. asked'
      BY <1>0, <1>1, <3>1, <3>3 DEF Requests
    <3>5. new \in Reported'
      <4> DEFINE asks == asked + 1 .. asked + report.asks
                 cut == drive.result.ends = "checkpoint"
                 replaceable == {0} \cup admitted'
                 n == asked'
      <4>1. cut \in BOOLEAN
        OBVIOUS
      <4>2. report.replaces \in replaceable /\ report.mixed \in BOOLEAN
        BY <3>1, <3>3
      <4>3. asks \in SUBSET Requests /\ asks \subseteq 1 .. n
        BY <3>4
      <4>4. Reported' = {r \in [by : Bindings, asks : SUBSET Requests, replaces : replaceable,
                                mixed : BOOLEAN, checkpoint : BOOLEAN] : r.asks \subseteq 1 .. n}
        BY DEF Reported
      <4>5. new = [by |-> drive.key, asks |-> asks, replaces |-> report.replaces,
                   mixed |-> report.mixed, checkpoint |-> cut]
        OBVIOUS
      <4> HIDE DEF report, asks, cut, replaceable, n, new
      <4>6. [by |-> drive.key, asks |-> asks, replaces |-> report.replaces,
             mixed |-> report.mixed, checkpoint |-> cut]
              \in {r \in [by : Bindings, asks : SUBSET Requests, replaces : replaceable,
                          mixed : BOOLEAN, checkpoint : BOOLEAN] : r.asks \subseteq 1 .. n}
        BY <3>2, <4>1, <4>2, <4>3, ReportMade
      <4> QED
        BY <4>4, <4>5, <4>6
    <3> HIDE DEF new
    <3>6. observed \in Seq(Reported')
      BY <1>0, <1>3
    <3> QED
      BY <3>1, <3>5, <3>6
  <2>2. CASE ~appendMessageObservation
    <3>1. observed' \in Seq(Reported)
      BY <1>0, <1>2, <2>2, Frames
    <3> QED
      BY <1>3, <3>1
  <2> QED
    BY <2>1, <2>2
<1>5. answers \subseteq answers' /\ answers' \subseteq admitted'
  <2>1. CASE ResolveDecisionRequest
    BY <1>0, <1>2, <2>1 DEF ResolveDecisionRequest, OpenDecisionRequestsForRun, Live
  <2> QED
    BY <1>0, <1>2, <2>1, Frames
<1>6. stale' \subseteq Bound
  BY <1>0, Frames DEF handoffAdmitted
<1>7. \A i \in DOMAIN observed' : observed'[i].asks \subseteq 1 .. asked'
  BY <1>4 DEF Reported
<1> QED
  BY <1>1, <1>2, <1>4, <1>5, <1>6, <1>7

-----------------------------------------------------------------------------
(* Types and data.                                                          *)

LEMMA RowStep ==
  ASSUME TypeOK, DriveOK, Next
  PROVE  /\ row' \in Ended \cup {"active", "decision_pending", "goal_state_reached",
                                "execution_checkpointed", "deterministic_failure_unchanged"}
         /\ settled' \in 0 .. MaxHeads /\ crashes' \in 0 .. MaxCrashes
<1>0. /\ row \in Ended \cup {"active", "decision_pending", "goal_state_reached",
                            "execution_checkpointed", "deterministic_failure_unchanged"}
      /\ settled \in 0 .. MaxHeads /\ crashes \in 0 .. MaxCrashes /\ journal.head \in 0 .. MaxHeads
  BY DEF TypeOK
<1>1. \/ row' = row
      \/ row' \in {"failed", "exhausted", "decision_pending", "goal_state_reached",
                   "execution_checkpointed", "deterministic_failure_unchanged"}
  <2> USE DEF settle, start, questions, candidate, decideReport
  <2>1. CASE load \/ decisionPending \/ goalReached
    BY <2>1 DEF load, decisionPending, goalReached
  <2>2. CASE runOperation
    BY <2>2 DEF runOperation
  <2>3. CASE \/ admitDecisionResumption \/ recoverDecisionResumptionContext \/ communicationContext
             \/ invokeExecution \/ decisionDeliveryEffect \/ executionCompleted
             \/ appendMessageObservation \/ operationAfter \/ assureCandidate
    BY <2>3 DEF admitDecisionResumption, recoverDecisionResumptionContext, communicationContext,
         invokeExecution, decisionDeliveryEffect, executionCompleted, appendMessageObservation,
         operationAfter, assureCandidate
  <2>4. CASE commitCandidate
    BY <2>4 DEF commitCandidate
  <2>5. CASE crash \/ admitOrchestratedMessages \/ ResolveDecisionRequest \/ handoffAdmitted
    BY <2>5 DEF crash, admitOrchestratedMessages, ResolveDecisionRequest, handoffAdmitted
  <2>6. CASE PlanPass
    BY <2>6, PassFrame
  <2> QED
    BY <2>1, <2>2, <2>3, <2>4, <2>5, <2>6 DEF Next, Drives
<1>2. settled' \in 0 .. MaxHeads
  BY Frames DEF appendStageSettled, TypeOK
<1>3. crashes' \in 0 .. MaxCrashes
  BY <1>0, Frames, DecisionAssumption DEF crash
<1> QED
  BY <1>0, <1>1, <1>2, <1>3 DEF Ended

StageType(n) ==
  [at : {"idle", "open", "events", "resolved", "decided", "evidence", "append"},
   asked : 0 .. n, delivered : SUBSET Requests, head : 0 .. MaxHeads]

LEMMA StageTyped ==
  ASSUME TypeOK, DataOK, DriveOK, Next
  PROVE  stage' \in StageType(asked')
<1>0. /\ stage \in StageType(asked) /\ asked \in Nat /\ asked' \in Nat /\ asked <= asked'
      /\ journal.head \in 0 .. MaxHeads /\ journal.delivered \subseteq Requests /\ MaxHeads \in Nat
  BY QuestionsStep, DecisionAssumption DEF TypeOK, StageType
<1>1. stage \in StageType(asked')
  BY <1>0 DEF StageType
<1>2. NoPass \in StageType(asked')
  BY <1>0 DEF NoPass, StageType
<1>3. CASE PlanPass
  <2>1. asked' = asked
    BY <1>3, PassFrame
  <2>2. CASE settleFinishedStages
    BY <1>2, <2>2 DEF settleFinishedStages, StageType
  <2>3. CASE appendStageSettled
    BY <1>2, <2>3 DEF appendStageSettled
  <2>4. CASE readOpen
    BY <1>1, <1>2, <2>4 DEF readOpen, Reads, StageType
  <2>5. CASE readEvents
    <3>1. stage' = [stage EXCEPT !.at = "resolved", !.asked = asked, !.delivered = journal.delivered]
      BY <2>5 DEF readEvents, Reads
    <3>2. asked \in 0 .. asked'
      BY <1>0, <2>1
    <3> QED
      BY <1>0, <1>1, <3>1, <3>2 DEF StageType
  <2>6. CASE readResolved
    BY <1>1, <1>2, <2>6 DEF readResolved, Reads, StageType
  <2>7. CASE readDecided
    BY <1>1, <1>2, <2>7 DEF readDecided, Reads, StageType
  <2>8. CASE stageAcceptance
    BY <1>0, <1>1, <1>2, <2>8 DEF stageAcceptance, Reads, StageType
  <2> QED
    BY <1>3, <2>2, <2>3, <2>4, <2>5, <2>6, <2>7, <2>8 DEF PlanPass
<1> QED
  BY <1>1, <1>2, <1>3, Frames

LEMMA TypeStep ==
  ASSUME TypeOK, DataOK, DriveOK, Next
  PROVE  TypeOK' /\ DataOK'
<1>1. seen' \subseteq answers'
  <2>1. CASE seen' = seen
    BY <2>1, QuestionsStep DEF TypeOK
  <2>2. CASE decisionDeliveryEffect
    <3>1. drive.shown \subseteq answers
      BY <2>2, Delivers DEF decisionDeliveryEffect
    <3>2. seen' = seen \/ seen' = seen \cup drive.shown
      BY <2>2 DEF decisionDeliveryEffect
    <3> QED
      BY <3>1, <3>2, QuestionsStep DEF TypeOK
  <2> QED
    BY <2>1, <2>2, Frames
<1>2. Started' \subseteq Bindings
  BY OpsStep DEF TypeOK
<1>3. /\ journal' \in [head : 0 .. MaxHeads, complete : BOOLEAN,
                       verdict : {"none", "passed", "refused"}, delivered : SUBSET Requests]
      /\ dirty' \in BOOLEAN
  BY JournalStep DEF JournalType
<1>4. \A b \in Started' :
        ops'[b] \in [state : {"planned", "running", "failed", "stopped", "succeeded"},
                     attempt : 0 .. MaxAttempts, mutated : BOOLEAN, checkpoint : BOOLEAN,
                     committed : BOOLEAN, at : 1 .. Cardinality(Started')]
  BY OpsStep DEF OpType
<1>5. TypeOK'
  BY <1>1, <1>2, <1>3, <1>4, QuestionsStep, PinsStep, RowStep, StageTyped DEF TypeOK, StageType
<1>6. DataOK'
  BY QuestionsStep, JournalStep, PinsStep, OpsStep DEF DataOK
<1> QED
  BY <1>5, <1>6

-----------------------------------------------------------------------------
(* The driving process.                                                     *)

LEMMA DriveRecord ==
  ASSUME NEW A, NEW O, NEW K, NEW S, NEW R,
         NEW d \in [at : A, own : O, key : K, shown : S, result : R],
         NEW at \in A, NEW own \in O, NEW key \in K, NEW shown \in S, NEW result \in R
  PROVE  /\ [d EXCEPT !.at = at] \in [at : A, own : O, key : K, shown : S, result : R]
         /\ [d EXCEPT !.at = at, !.own = own, !.key = key]
              \in [at : A, own : O, key : K, shown : S, result : R]
         /\ [d EXCEPT !.at = at, !.shown = shown] \in [at : A, own : O, key : K, shown : S, result : R]
         /\ [d EXCEPT !.at = at, !.result = result] \in [at : A, own : O, key : K, shown : S, result : R]
         /\ [d EXCEPT !.own = own, !.shown = shown, !.at = at]
              \in [at : A, own : O, key : K, shown : S, result : R]
  OBVIOUS

LEMMA DriveGrows ==
  ASSUME TypeOK, DataOK, DriveOK, Next
  PROVE  drive \in DriveType' /\ Outcomes \subseteq Outcomes'
<1>1. admitted \subseteq admitted' /\ answers \subseteq answers'
  BY QuestionsStep
<1>2. Outcomes \subseteq Outcomes'
  <2>1. {0} \cup admitted \subseteq {0} \cup admitted'
    BY <1>1
  <2> QED
    BY <2>1 DEF Outcomes
<1>3. Outcomes \cup {NoResult} \subseteq Outcomes' \cup {NoResult}
  BY <1>2
<1>4. SUBSET answers \subseteq SUBSET (answers')
  BY <1>1
<1>5. drive \in DriveType
  BY DEF DriveOK
<1> HIDE DEF Outcomes
<1> QED
  BY <1>2, <1>3, <1>4, <1>5 DEF DriveType

LEMMA IdleOK ==
  ASSUME drive' = Idle
  PROVE  DriveOK'
<1>1. Idle \in DriveType'
  BY DEF Idle, DriveType, Places, NoResult
<1>2. Idle.at = "idle"
  BY DEF Idle
<1> QED
  BY <1>1, <1>2 DEF DriveOK, Attempting, Finishing

(* A step of somebody else disturbs nothing the driver relies on. *)
LEMMA DriveKept ==
  ASSUME TypeOK, DataOK, DriveOK, Next, drive' = drive, asked' = asked
  PROVE  DriveOK'
<1>1. drive \in DriveType' /\ Outcomes \subseteq Outcomes'
  BY DriveGrows
<1>2. Started \subseteq Started' /\ journal.delivered \subseteq journal'.delivered
  BY OpsStep, JournalStep
<1>3. DOMAIN pins \subseteq DOMAIN pins' /\ \A b \in DOMAIN pins : pins'[b] = pins[b]
  BY PinsStep
<1>4. drive.at \in {"working", "deliver"} => drive.at \in Attempting \ {"admit"}
  BY DEF Attempting
<1> QED
  BY <1>1, <1>2, <1>3, <1>4 DEF DriveOK

LEMMA DriveLoad ==
  ASSUME TypeOK, DataOK, DriveOK, Next, load
  PROVE  DriveOK'
<1> DEFINE own == ResolvedOwnDecisionRequests
           does == plan(own).does
           key == plan(own).key
<1>0. own \in SUBSET Requests
  BY Asking DEF ResolvedOwnDecisionRequests
<1>1. drive' = Idle \/ drive' = [Idle EXCEPT !.at = does, !.own = own, !.key = key]
  BY DEF load, settle
<1>2. /\ does \in {"invoke", "commit", "assure", "nothing"} /\ key \in Bindings \cup {Nothing}
      /\ does = "invoke" => key \in Bindings
      /\ does = "commit" => key \in Started
  BY <1>0, PlanMade
<1>3. ops' = ops
  BY DEF load, candidate
<1> HIDE DEF own, does, key
<1>4. CASE drive' = [Idle EXCEPT !.at = does, !.own = own, !.key = key]
  <2>1. drive' \in DriveType'
    <3>1. Idle \in DriveType'
      BY DEF Idle, DriveType, Places, NoResult
    <3>2. does \in Places
      BY <1>2 DEF Places
    <3> QED
      BY <1>0, <1>2, <1>4, <3>1, <3>2, DriveRecord DEF DriveType
  <2>2. drive'.at = does /\ drive'.key = key
    BY <1>4 DEF Idle
  <2>3. Started' = Started
    BY <1>3 DEF Started
  <2> QED
    BY <1>2, <2>1, <2>2, <2>3 DEF DriveOK, Attempting, Finishing
<1> QED
  BY <1>1, <1>4, IdleOK

LEMMA DriveRun ==
  ASSUME TypeOK, DataOK, DriveOK, Next, runOperation
  PROVE  DriveOK'
<1> DEFINE at == IF drive.key.kind = "decision" THEN "admit" ELSE "compile"
<1>1. drive' = Idle \/ drive' = [drive EXCEPT !.at = at]
  BY DEF runOperation, settle, start
<1>2. CASE drive' = [drive EXCEPT !.at = at]
  <2>1. drive' \in DriveType'
    BY <1>2, DriveGrows, DriveRecord DEF DriveType, Places
  <2>2. drive'.at = at /\ drive'.key = drive.key
    BY <1>2, DriveGrows DEF DriveType
  <2>3. drive.key \in Started'
    BY <2>2, RunStep
  <2> QED
    BY <2>1, <2>2, <2>3 DEF DriveOK, Attempting, Finishing
<1> QED
  BY <1>1, <1>2, IdleOK

LEMMA DriveAdmit ==
  ASSUME TypeOK, DataOK, DriveOK, Next, admitDecisionResumption
  PROVE  DriveOK'
<1>1. \/ drive' = Idle
      \/ drive' = [drive EXCEPT !.at = "recover"] /\ drive.key \in DOMAIN pins'
  BY DEF admitDecisionResumption, refuse
<1>2. CASE drive' = [drive EXCEPT !.at = "recover"] /\ drive.key \in DOMAIN pins'
  <2>1. drive' \in DriveType'
    BY <1>2, DriveGrows, DriveRecord DEF DriveType, Places
  <2>2. drive'.at = "recover" /\ drive'.key = drive.key
    BY <1>2, DriveGrows DEF DriveType
  <2>3. drive.key \in Started'
    BY <1>2, PinsStep
  <2> QED
    BY <1>2, <2>1, <2>2, <2>3 DEF DriveOK, Attempting, Finishing
<1> QED
  BY <1>1, <1>2, IdleOK

LEMMA DriveRecover ==
  ASSUME TypeOK, DataOK, DriveOK, Next, recoverDecisionResumptionContext
  PROVE  DriveOK'
<1>1. drive' = Idle \/ drive' = [drive EXCEPT !.at = "compile"]
  BY DEF recoverDecisionResumptionContext, refuse
<1>2. CASE drive' = [drive EXCEPT !.at = "compile"]
  <2>1. drive' \in DriveType'
    BY <1>2, DriveGrows, DriveRecord DEF DriveType, Places
  <2>2. drive'.at = "compile" /\ drive'.key = drive.key
    BY <1>2, DriveGrows DEF DriveType
  <2>3. drive.key \in Started' /\ (drive.key.kind = "decision" => drive.key \in DOMAIN pins')
    BY OpsStep, PinsStep DEF recoverDecisionResumptionContext, DriveOK, Attempting
  <2> QED
    BY <2>1, <2>2, <2>3 DEF DriveOK, Attempting, Finishing
<1> QED
  BY <1>1, <1>2, IdleOK

LEMMA DriveShow ==
  ASSUME TypeOK, DataOK, DriveOK, Next, communicationContext
  PROVE  DriveOK'
<1> DEFINE shown == IF drive.key.kind = "decision" THEN pins[drive.key] ELSE ResolvedOwnDecisionRequests
<1>0. /\ drive.at = "compile" /\ drive' = [drive EXCEPT !.at = "working", !.shown = shown]
      /\ ops' = ops /\ pins' = pins /\ answers' = answers
  BY DEF communicationContext, questions, candidate
<1>1. drive.key \in Started /\ (drive.key.kind = "decision" => drive.key \in DOMAIN pins)
  BY <1>0 DEF DriveOK, Attempting
<1>2. shown \in SUBSET (answers')
  BY <1>0, <1>1 DEF DataOK, ResolvedOwnDecisionRequests
<1>3. drive.key.kind = "decision" => shown = pins[drive.key]
  OBVIOUS
<1> HIDE DEF shown
<1>4. drive' \in DriveType'
  BY <1>0, <1>2, DriveGrows, DriveRecord DEF DriveType, Places
<1>5. drive'.at = "working" /\ drive'.key = drive.key /\ drive'.shown = shown
  BY <1>0, DriveGrows DEF DriveType
<1> QED
  BY <1>0, <1>1, <1>3, <1>4, <1>5 DEF DriveOK, Attempting, Finishing, Started

LEMMA ReportsMade ==
  ASSUME TypeOK, NEW mixes \in SUBSET BOOLEAN, NEW report \in Reports(mixes)
  PROVE  /\ report \in [asks : Nat, replaces : {0} \cup admitted, mixed : BOOLEAN]
         /\ asked + report.asks <= MaxRequests
<1>0. asked \in 0 .. MaxRequests /\ MaxRequests \in Nat
  BY DecisionAssumption DEF TypeOK
<1>1. CASE report = Silent
  BY <1>0, <1>1 DEF Silent
<1>2. CASE report \in [asks : 1 .. MaxRequests - asked, replaces : {0} \cup admitted, mixed : mixes]
  BY <1>0, <1>2
<1> QED
  BY <1>1, <1>2 DEF Reports

LEMMA DriveInvoke ==
  ASSUME TypeOK, DataOK, DriveOK, Next, invokeExecution
  PROVE  DriveOK'
<1>0. /\ drive.at = "working" /\ ops' = ops /\ pins' = pins /\ asked' = asked /\ admitted' = admitted
  BY DEF invokeExecution, questions
<1>1. PICK result :
        /\ drive' = [drive EXCEPT !.at = "deliver", !.result = result]
        /\ result \in Outcomes /\ (Reached(result) => result.reached)
        /\ asked + result.report.asks <= MaxRequests
  <2>0. dirty \in BOOLEAN /\ Silent \in Reports({FALSE})
    BY DEF TypeOK, Reports
  <2>1. \E ends \in {"succeeded", "checkpoint", "failed", "stopped"}, reached \in BOOLEAN,
           mutated \in BOOLEAN, mixes \in SUBSET BOOLEAN : \E report \in Reports(mixes) :
          /\ drive' = [drive EXCEPT !.at = "deliver", !.result = Outcome(ends, reached, mutated, report)]
          /\ ends \in {"succeeded", "checkpoint"} => reached
    <3>1. CASE \E report \in Reports({FALSE}), work \in {dirty, journal.head < MaxHeads} :
                 drive' = [drive EXCEPT !.at = "deliver",
                                        !.result = Outcome("succeeded", TRUE, dirty \/ work, report)]
      BY <2>0, <3>1
    <3>2. CASE \E report \in Reports(BOOLEAN) :
                 drive' = [drive EXCEPT !.at = "deliver",
                                        !.result = Outcome("checkpoint", TRUE, TRUE, report)]
      BY <3>2
    <3>3. CASE \E ends \in {"failed", "stopped"}, reached \in BOOLEAN :
                 drive' = [drive EXCEPT !.at = "deliver",
                                        !.result = Outcome(ends, reached, FALSE, Silent)]
      BY <2>0, <3>3
    <3> QED
      BY <3>1, <3>2, <3>3 DEF invokeExecution
  <2>2. PICK ends \in {"succeeded", "checkpoint", "failed", "stopped"}, reached \in BOOLEAN,
             mutated \in BOOLEAN, mixes \in SUBSET BOOLEAN : \E report \in Reports(mixes) :
          /\ drive' = [drive EXCEPT !.at = "deliver", !.result = Outcome(ends, reached, mutated, report)]
          /\ ends \in {"succeeded", "checkpoint"} => reached
    BY <2>1
  <2>3. PICK report \in Reports(mixes) :
          /\ drive' = [drive EXCEPT !.at = "deliver", !.result = Outcome(ends, reached, mutated, report)]
          /\ ends \in {"succeeded", "checkpoint"} => reached
    BY <2>2
  <2>4. /\ report \in [asks : Nat, replaces : {0} \cup admitted, mixed : BOOLEAN]
        /\ asked + report.asks <= MaxRequests
    BY ReportsMade
  <2> DEFINE result == Outcome(ends, reached, mutated, report)
  <2>5. result.ends = ends /\ result.reached = reached /\ result.report = report
    BY DEF Outcome
  <2>6. result \in Outcomes
    BY <2>4 DEF Outcome, Outcomes
  <2> QED
    BY <2>3, <2>4, <2>5, <2>6 DEF Reached
<1>2. drive.key \in Started /\ (drive.key.kind = "decision" =>
        drive.key \in DOMAIN pins /\ drive.shown = pins[drive.key])
  BY <1>0 DEF DriveOK, Attempting
<1>3. result \in Outcomes'
  BY <1>1, DriveGrows
<1>4. drive' \in DriveType'
  BY <1>1, <1>3, DriveGrows, DriveRecord DEF DriveType, Places
<1>5. /\ drive'.at = "deliver" /\ drive'.key = drive.key /\ drive'.shown = drive.shown
      /\ drive'.result = result
  BY <1>1, DriveGrows DEF DriveType
<1> QED
  BY <1>0, <1>1, <1>2, <1>3, <1>4, <1>5 DEF DriveOK, Attempting, Finishing, Started

LEMMA DriveDeliver ==
  ASSUME TypeOK, DataOK, DriveOK, Next, decisionDeliveryEffect
  PROVE  DriveOK'
<1> DEFINE at == CASE drive.result.ends = "succeeded" -> "complete"
                   [] drive.result.ends = "checkpoint" -> "observe"
                   [] OTHER -> "finish"
<1>0. /\ drive.at = "deliver" /\ ops' = ops /\ pins' = pins /\ asked' = asked
      /\ drive' = [drive EXCEPT !.own = {}, !.shown = {}, !.at = at]
  BY DEF decisionDeliveryEffect, questions
<1>1. /\ drive.key \in Started
      /\ drive.key.kind = "decision" => drive.key \in DOMAIN pins /\ pins[drive.key] = drive.key.ids
      /\ drive.result \in Outcomes /\ (Reached(drive.result) => drive.result.reached)
      /\ asked + drive.result.report.asks <= MaxRequests
  BY <1>0 DEF DriveOK, Attempting, TypeOK
<1>2. at \in Finishing
  BY DEF Finishing
<1> HIDE DEF at
<1>3. drive' \in DriveType'
  BY <1>0, <1>2, DriveGrows, DriveRecord DEF DriveType, Places, Finishing
<1>4. drive'.at = at /\ drive'.key = drive.key /\ drive'.result = drive.result
  BY <1>0, DriveGrows DEF DriveType
<1>5. drive.result \in Outcomes'
  BY <1>1, DriveGrows
<1>6. drive.result.reached /\ drive.key.kind = "decision" => drive.key.ids \subseteq journal'.delivered
  <2> SUFFICES ASSUME drive.result.reached, drive.key.kind = "decision"
               PROVE  drive.key.ids \subseteq journal'.delivered
    OBVIOUS
  <2>1. decisionsToDeliver = drive.key.ids
    BY <1>1 DEF decisionsToDeliver
  <2>2. journal' = [journal EXCEPT !.delivered = @ \cup decisionsToDeliver]
    BY DEF decisionDeliveryEffect
  <2>3. journal'.delivered = journal.delivered \cup decisionsToDeliver
    BY <2>2 DEF TypeOK
  <2> QED
    BY <2>1, <2>3
<1> QED
  BY <1>0, <1>1, <1>2, <1>3, <1>4, <1>5, <1>6 DEF DriveOK, Attempting, Finishing, Started

LEMMA DriveFinish ==
  ASSUME TypeOK, DataOK, DriveOK, Next, executionCompleted \/ appendMessageObservation
  PROVE  DriveOK'
<1>1. PICK at \in {"observe", "finish"} :
        /\ drive' = [drive EXCEPT !.at = at] /\ drive.at \in {"complete", "observe"}
        /\ at = "observe" => asked' = asked
  BY DEF executionCompleted, appendMessageObservation, questions
<1>2. /\ drive.key \in Started /\ (drive.key.kind = "decision" => drive.key \in DOMAIN pins)
      /\ drive.result \in Outcomes /\ (Reached(drive.result) => drive.result.reached)
      /\ asked + drive.result.report.asks <= MaxRequests
      /\ Reached(drive.result) /\ drive.key.kind = "decision" => drive.key.ids \subseteq journal.delivered
  BY <1>1 DEF DriveOK, Attempting, Finishing
<1>3. drive' \in DriveType' /\ drive.result \in Outcomes'
  BY <1>1, <1>2, DriveGrows, DriveRecord DEF DriveType, Places
<1>4. drive'.at = at /\ drive'.key = drive.key /\ drive'.result = drive.result
  BY <1>1, DriveGrows DEF DriveType
<1>5. /\ Started \subseteq Started' /\ DOMAIN pins \subseteq DOMAIN pins'
      /\ journal.delivered \subseteq journal'.delivered
  BY OpsStep, PinsStep, JournalStep
<1> QED
  BY <1>1, <1>2, <1>3, <1>4, <1>5 DEF DriveOK, Attempting, Finishing

LEMMA DriveStep ==
  ASSUME TypeOK, DataOK, DriveOK, Next
  PROVE  DriveOK'
<1>1. CASE decisionPending \/ goalReached \/ operationAfter \/ commitCandidate \/ assureCandidate \/ crash
  BY <1>1, IdleOK DEF decisionPending, goalReached, operationAfter, commitCandidate, assureCandidate,
       crash, settle
<1>2. CASE admitOrchestratedMessages \/ ResolveDecisionRequest \/ handoffAdmitted
  BY <1>2, DriveKept DEF admitOrchestratedMessages, decideReport, ResolveDecisionRequest,
       handoffAdmitted, questions
<1>3. CASE PlanPass
  BY <1>3, PassFrame, DriveKept
<1> QED
  BY <1>1, <1>2, <1>3, DriveLoad, DriveRun, DriveAdmit, DriveRecover, DriveShow, DriveInvoke, DriveDeliver,
     DriveFinish DEF Next, Drives

-----------------------------------------------------------------------------
(* The resumptions.                                                         *)

(* Who holds a plan to invoke something just made it, or nothing moved. *)
LEMMA PlanStands ==
  ASSUME TypeOK, DataOK, DriveOK, Next, drive'.at = "invoke"
  PROVE  load \/ (drive' = drive /\ ops' = ops /\ journal' = journal)
<1>0. drive \in DriveType
  BY DEF DriveOK
<1>1. CASE \/ decisionPending \/ goalReached \/ operationAfter \/ commitCandidate \/ assureCandidate
           \/ crash
  <2>1. drive' = Idle
    BY <1>1 DEF decisionPending, goalReached, operationAfter, commitCandidate, assureCandidate,
         crash, settle
  <2> QED
    BY <2>1 DEF Idle
<1>2. CASE admitOrchestratedMessages \/ ResolveDecisionRequest \/ handoffAdmitted \/ PlanPass
  BY <1>2, PassFrame DEF admitOrchestratedMessages, decideReport, ResolveDecisionRequest,
       handoffAdmitted, candidate
<1>3. CASE runOperation
  BY <1>0, <1>3 DEF runOperation, settle, start, Idle, DriveType
<1>4. CASE admitDecisionResumption \/ recoverDecisionResumptionContext
  BY <1>0, <1>4 DEF admitDecisionResumption, recoverDecisionResumptionContext, refuse, Idle, DriveType
<1>5. CASE communicationContext \/ executionCompleted \/ appendMessageObservation
  BY <1>0, <1>5 DEF communicationContext, executionCompleted, appendMessageObservation, DriveType
<1>6. CASE invokeExecution
  <2>1. \E result : drive' = [drive EXCEPT !.at = "deliver", !.result = result]
    BY <1>6 DEF invokeExecution
  <2> QED
    BY <1>0, <2>1 DEF DriveType
<1>7. CASE decisionDeliveryEffect
  <2>1. \E at \in Finishing : drive' = [drive EXCEPT !.own = {}, !.shown = {}, !.at = at]
    BY <1>7 DEF decisionDeliveryEffect, Finishing
  <2> QED
    BY <1>0, <2>1 DEF DriveType, Finishing
<1> QED
  BY <1>1, <1>2, <1>3, <1>4, <1>5, <1>6, <1>7 DEF Next, Drives

LEMMA ResumeStep ==
  ASSUME TypeOK, DataOK, DriveOK, ResumeOK, Next
  PROVE  ResumeOK'
<1>1. ASSUME NEW b \in Started', b.kind = "decision", satisfied(b)'
      PROVE  b.ids \subseteq journal'.delivered
  <2>1. /\ b \in Started
        /\ \/ ops[b].state = "succeeded"
           \/ operationAfter /\ b = drive.key /\ Reached(drive.result)
    BY <1>1, OpsStep DEF satisfied
  <2>2. CASE ops[b].state = "succeeded"
    BY <1>1, <2>1, <2>2, JournalStep DEF ResumeOK, satisfied
  <2>3. CASE operationAfter /\ b = drive.key /\ Reached(drive.result)
    BY <1>1, <2>3, JournalStep DEF operationAfter, DriveOK, Finishing
  <2> QED
    BY <2>1, <2>2, <2>3
<1>2. ASSUME drive'.at = "invoke", drive'.key \notin Started'
      PROVE  /\ drive'.key.kind = "decision" =>
                  Unresumed' = {} /\ drive'.key.ids \cap journal'.delivered = {}
             /\ isResumptionBinding(drive'.key) => Cardinality(Resumptions') < MaxContinuations
  <2>1. CASE drive' = drive /\ ops' = ops /\ journal' = journal
    <3>1. Started' = Started /\ Unresumed' = Unresumed /\ Resumptions' = Resumptions
      BY <2>1 DEF Started, Unresumed, Resumptions, satisfied
    <3> QED
      BY <1>2, <2>1, <3>1 DEF ResumeOK
  <2>2. CASE load
    <3> DEFINE own == ResolvedOwnDecisionRequests
               invoke == bindExecutionInvoke(own)
    <3>0. own \in SUBSET Requests
      BY Asking DEF ResolvedOwnDecisionRequests
    <3>1. ops' = ops /\ journal' = journal
      BY <2>2 DEF load, candidate
    <3>2. Started' = Started /\ Unresumed' = Unresumed /\ Resumptions' = Resumptions
      BY <3>1 DEF Started, Unresumed, Resumptions, satisfied
    <3>3. /\ ~continuationCeilingReached(own)
          /\ drive' = [Idle EXCEPT !.at = plan(own).does, !.own = own, !.key = plan(own).key]
      BY <1>2, <2>2 DEF load, settle, Idle
    <3>4. plan(own).does = "invoke" /\ drive'.key = plan(own).key
      BY <1>2, <3>3 DEF Idle
    <3>5. drive'.key = invoke
      BY <3>0, <3>4, PlanMade
    <3>6. invoke \notin Started
      BY <1>2, <3>2, <3>5
    <3>7. invoke.kind = "decision" => Unresumed = {} /\ invoke.ids \cap journal.delivered = {}
      BY <3>0, <3>6, FreshBinding
    <3>8. isResumptionBinding(invoke) => Cardinality(Resumptions) < MaxContinuations
      <4>1. IsFiniteSet(Resumptions)
        BY FS_Subset DEF DataOK, Resumptions
      <4>2. Cardinality(Resumptions) \in Nat
        BY <4>1, FS_CardinalityType
      <4>3. isResumptionBinding(invoke) => ~(Cardinality(Resumptions) >= MaxContinuations)
        BY <3>3, <3>6 DEF continuationCeilingReached, Resumptions
      <4> QED
        BY <4>2, <4>3, DecisionAssumption
    <3> HIDE DEF invoke
    <3> QED
      BY <3>1, <3>2, <3>5, <3>7, <3>8
  <2> QED
    BY <1>2, <2>1, <2>2, PlanStands
<1> QED
  BY <1>1, <1>2 DEF ResumeOK

(* The ceiling counts every resumption that was started. *)
LEMMA BoundedStep ==
  ASSUME TypeOK, DataOK, DriveOK, ResumeOK, ResumptionsBounded, Next
  PROVE  ResumptionsBounded'
<1>0. Cardinality(Resumptions') <= MaxContinuations => ResumptionsBounded'
  BY DEF ResumptionsBounded, Resumptions, isResumptionBinding
<1>1. Cardinality(Resumptions) <= MaxContinuations
  BY DEF ResumptionsBounded, Resumptions, isResumptionBinding
<1>2. IsFiniteSet(Resumptions) /\ Cardinality(Resumptions) \in Nat
  BY FS_Subset, FS_CardinalityType DEF DataOK, Resumptions
<1>3. CASE Resumptions' = Resumptions
  BY <1>0, <1>1, <1>3
<1>4. CASE Resumptions' # Resumptions
  <2>1. /\ runOperation /\ drive.key \notin Started /\ isResumptionBinding(drive.key)
        /\ Resumptions' = Resumptions \cup {drive.key}
    <3>1. Resumptions' = {b \in Started' : isResumptionBinding(b)}
      BY DEF Resumptions
    <3>2. Started' # Started
      BY <1>4, <3>1 DEF Resumptions
    <3>3. runOperation /\ drive.key \notin Started /\ Started' = Started \cup {drive.key}
      BY <3>2, OpsStep
    <3>4. isResumptionBinding(drive.key)
      BY <1>4, <3>1, <3>3 DEF Resumptions
    <3> QED
      BY <3>1, <3>3, <3>4 DEF Resumptions
  <2>2. Cardinality(Resumptions) < MaxContinuations
    BY <2>1 DEF runOperation, ResumeOK
  <2>3. Cardinality(Resumptions') = Cardinality(Resumptions) + 1
    <3>1. drive.key \notin Resumptions
      BY <2>1 DEF Resumptions
    <3> HIDE DEF Resumptions
    <3>2. Cardinality(Resumptions \cup {drive.key}) = Cardinality(Resumptions) + 1
      BY <1>2, <3>1, FS_AddElement
    <3> QED
      BY <2>1, <3>2
  <2> QED
    BY <1>0, <1>2, <2>2, <2>3, DecisionAssumption
<1> QED
  BY <1>3, <1>4

(* A resumption that is new is for nothing an earlier one delivered. *)
LEMMA OnceStep ==
  ASSUME TypeOK, DataOK, DriveOK, ResumeOK, ResumedOnce, Next
  PROVE  ResumedOnce'
<1>1. CASE Started' = Started
  BY <1>1 DEF ResumedOnce
<1>2. CASE runOperation /\ drive.key \notin Started /\ Started' = Started \cup {drive.key}
  <2> DEFINE key == drive.key
  <2>1. ASSUME NEW b \in Started, b.kind = "decision", key.kind = "decision"
        PROVE  b.ids \cap key.ids = {}
    <3>1. Unresumed = {} /\ key.ids \cap journal.delivered = {}
      BY <1>2, <2>1 DEF runOperation, ResumeOK
    <3>2. b.ids \subseteq journal.delivered
      BY <2>1, <3>1 DEF ResumeOK, Unresumed
    <3> QED
      BY <3>1, <3>2
  <2> QED
    BY <1>2, <2>1 DEF ResumedOnce
<1> QED
  BY <1>1, <1>2, OpsStep

LEMMA ShownStep ==
  ASSUME TypeOK, DataOK, DriveOK, DeliveredWasShown, Next
  PROVE  DeliveredWasShown'
<1>1. CASE decisionDeliveryEffect
  <2>1. decisionsToDeliver \subseteq drive.shown
    BY <1>1, Delivers DEF decisionDeliveryEffect
  <2>2. journal \in JournalType
    BY DEF TypeOK, JournalType
  <2>3. CASE drive.result.reached
    BY <1>1, <2>1, <2>2, <2>3 DEF decisionDeliveryEffect, DeliveredWasShown, JournalType
  <2>4. CASE ~drive.result.reached
    BY <1>1, <2>4 DEF decisionDeliveryEffect, DeliveredWasShown
  <2> QED
    BY <2>3, <2>4
<1>2. CASE ~decisionDeliveryEffect
  BY <1>2, Frames, JournalStep DEF DeliveredWasShown
<1> QED
  BY <1>1, <1>2

-----------------------------------------------------------------------------
(* The plan pass.                                                           *)

(* Beside a pass nothing is admitted, and new reports are beyond what it    *)
(* has read: what its reads left standing stands.                           *)
LEMMA StageKept ==
  ASSUME TypeOK, DataOK, DriveOK, StageOK, Next, stage' = stage
  PROVE  StageOK'
<1>1. CASE stage.at = "idle"
  BY <1>1 DEF StageOK
<1>2. CASE stage.at # "idle"
  <2>1. ~admitOrchestratedMessages
    BY <1>2 DEF admitOrchestratedMessages
  <2>2. Live' = Live /\ answers \subseteq answers' /\ journal.delivered \subseteq journal'.delivered
    BY <2>1, Frames, QuestionsStep, JournalStep DEF Live
  <2>3. stage.asked \in 0 .. asked /\ asked \in Nat
    BY DEF TypeOK
  <2>4. ASSUME \A i \in DOMAIN observed : observed[i].asks \cap 1 .. stage.asked = {}
        PROVE  \A i \in DOMAIN observed' : observed'[i].asks \cap 1 .. stage.asked = {}
    <3>1. CASE observed' = observed
      BY <2>4, <3>1
    <3>2. CASE appendMessageObservation
      <4>1. PICK report :
              /\ observed' = observed \/ observed' = Append(observed, report)
              /\ report.asks = asked + 1 .. asked + drive.result.report.asks
        BY <3>2 DEF appendMessageObservation
      <4>2. report.asks \cap 1 .. stage.asked = {}
        <5>1. drive.result.report.asks \in Nat
          BY <3>2 DEF appendMessageObservation, DriveOK, Finishing, Outcomes
        <5> QED
          BY <2>3, <4>1, <5>1
      <4>3. observed \in Seq(Reported)
        BY DEF DataOK
      <4>4. CASE observed' = Append(observed, report)
        <5>1. /\ DOMAIN observed = 1 .. Len(observed) /\ Len(observed) \in Nat
              /\ DOMAIN observed' = 1 .. Len(observed) + 1
              /\ \A i \in 1 .. Len(observed) : observed'[i] = observed[i]
              /\ observed'[Len(observed) + 1] = report
          BY <4>3, <4>4
        <5> QED
          BY <2>4, <4>2, <5>1
      <4> QED
        BY <2>4, <4>1, <4>4
    <3> QED
      BY <2>1, <3>1, <3>2, Frames
  <2> QED
    BY <2>2, <2>4 DEF StageOK
<1> QED
  BY <1>1, <1>2

LEMMA StageStep ==
  ASSUME TypeOK, DataOK, DriveOK, StageOK, Next
  PROVE  StageOK'
<1>0. stage \in StageType(asked)
  BY DEF TypeOK, StageType
<1>1. ASSUME stage'.at \in {"idle", "open"} PROVE StageOK'
  BY <1>1 DEF StageOK
<1>2. NoPass.at = "idle"
  BY DEF NoPass
<1>3. CASE PlanPass
  <2>1. UNCHANGED <<observed, admitted, superseded, answers, journal>> /\ Live' = Live
    BY <1>3, PassFrame DEF Live
  <2>2. CASE settleFinishedStages \/ appendStageSettled
    BY <1>1, <2>2 DEF settleFinishedStages, appendStageSettled, NoPass
  <2>3. CASE readOpen
    <3>1. \/ stage'.at = "idle"
          \/ stage'.at = "events" /\ OpenDecisionRequestsForRun = {}
      BY <1>0, <1>2, <2>3 DEF readOpen, Reads, StageType
    <3> QED
      BY <1>1, <2>1, <3>1 DEF StageOK, OpenDecisionRequestsForRun
  <2>4. CASE readEvents
    <3>1. stage.at = "events" /\ stage'.at = "resolved" /\ stage'.delivered = journal.delivered
      BY <1>0, <2>4 DEF readEvents, Reads, StageType
    <3> QED
      BY <2>1, <3>1 DEF StageOK
  <2>5. CASE readResolved
    <3>1. /\ stage.at = "resolved"
          /\ \/ stage'.at = "idle"
             \/ stage'.at = "decided" /\ Live \cap answers \subseteq stage.delivered
      BY <1>0, <1>2, <2>5 DEF readResolved, Reads, StageType, ResolvedOwnDecisionRequests
    <3> QED
      BY <1>1, <2>1, <3>1 DEF StageOK
  <2>6. CASE readDecided
    <3>1. /\ stage.at = "decided"
          /\ \/ stage'.at = "idle"
             \/ stage'.at = "evidence" /\ stage'.asked = stage.asked /\ undecidedReports = {}
      BY <1>0, <1>2, <2>6 DEF readDecided, Reads, StageType
    <3> QED
      BY <1>1, <2>1, <3>1 DEF StageOK, undecidedReports
  <2>7. CASE stageAcceptance
    <3>1. /\ stage.at = "evidence"
          /\ \/ stage'.at = "idle"
             \/ stage'.at = "append" /\ stage'.asked = stage.asked
      BY <1>0, <1>2, <2>7 DEF stageAcceptance, Reads, StageType
    <3> QED
      BY <1>1, <2>1, <3>1 DEF StageOK
  <2> QED
    BY <1>3, <2>2, <2>3, <2>4, <2>5, <2>6, <2>7 DEF PlanPass
<1> QED
  BY <1>1, <1>2, <1>3, StageKept, Frames

-----------------------------------------------------------------------------
(* The theorems.                                                            *)

LEMMA DecisionInit ==
  ASSUME Init
  PROVE  DecisionInv
<1>1. Started = {} /\ DOMAIN pins = {} /\ DOMAIN observed = {}
  BY DEF Init, Started
<1>2. IsFiniteSet({}) /\ Cardinality({}) = 0
  BY FS_EmptySet
<1>3. TypeOK
  <2>1. /\ asked = 0 /\ admitted = {} /\ superseded = {} /\ answers = {} /\ stale = {} /\ seen = {}
        /\ settled = 0 /\ crashes = 0 /\ dirty = FALSE /\ row = "active"
        /\ stage = [at |-> "idle", asked |-> 0, delivered |-> {}, head |-> 0]
    BY DEF Init, NoPass
  <2>2. journal \in [head : 0 .. MaxHeads, complete : BOOLEAN,
                     verdict : {"none", "passed", "refused"}, delivered : SUBSET Requests]
    BY DecisionAssumption DEF Init
  <2>3. 0 \in 0 .. MaxRequests /\ 0 \in 0 .. MaxHeads /\ 0 \in 0 .. MaxCrashes
    BY DecisionAssumption
  <2>4. stage \in StageType(asked)
    BY <2>1, <2>3 DEF StageType
  <2> QED
    BY <1>1, <2>1, <2>2, <2>3, <2>4 DEF TypeOK, StageType
<1>4. DataOK
  <2>1. observed \in Seq(Reported)
    BY DEF Init
  <2> QED
    BY <1>1, <1>2, <2>1 DEF Init, DataOK
<1>5. DriveOK
  <2>1. drive = Idle /\ Idle.at = "idle"
    BY DEF Init, Idle
  <2>2. Idle \in DriveType
    BY DEF Idle, DriveType, Places, NoResult
  <2> QED
    BY <2>1, <2>2 DEF DriveOK, Attempting, Finishing
<1>6. ResumeOK
  BY <1>1 DEF Init, ResumeOK, Idle
<1>7. DeliveredWasShown /\ ResumedOnce
  BY <1>1 DEF Init, DeliveredWasShown, ResumedOnce
<1>8. ResumptionsBounded
  <2>1. {b \in Started : b.kind \in {"continuation", "decision"}} = {}
    BY <1>1
  <2> QED
    BY <1>2, <2>1, DecisionAssumption DEF ResumptionsBounded
<1>9. StageOK
  BY DEF Init, NoPass, StageOK
<1> QED
  BY <1>3, <1>4, <1>5, <1>6, <1>7, <1>8, <1>9 DEF DecisionInv

LEMMA DecisionStutter ==
  ASSUME DecisionInv, UNCHANGED vars
  PROVE  DecisionInv'
  BY DEF DecisionInv, vars, questions, candidate, planPass, TypeOK, DataOK, DriveOK, ResumeOK, DriveType,
     StageOK, Live,
     Outcomes, Reported, Started, Resumptions, Unresumed, satisfied, DeliveredWasShown, ResumedOnce,
     ResumptionsBounded

(* The inductive invariant: the types, what the driver and the plan pass    *)
(* rely on between their reads and their writes, and what a resumption that succeeded has       *)
(* delivered hold in every state, for any number of questions, attempts,    *)
(* resumptions, commits and crashes (runtime/decision_resumption.go).       *)
THEOREM DecisionInvAlways == Spec => []DecisionInv
<1>1. Init => DecisionInv
  BY DecisionInit
<1>2. DecisionInv /\ [Next]_vars => DecisionInv'
  <2>1. ASSUME DecisionInv, Next PROVE DecisionInv'
    <3>0. /\ TypeOK /\ DataOK /\ DriveOK /\ ResumeOK /\ StageOK
          /\ DeliveredWasShown /\ ResumedOnce /\ ResumptionsBounded
      BY <2>1 DEF DecisionInv
    <3>1. TypeOK' /\ DataOK'
      BY <2>1, <3>0, TypeStep
    <3>2. DriveOK'
      BY <2>1, <3>0, DriveStep
    <3>3. ResumeOK'
      BY <2>1, <3>0, ResumeStep
    <3>4. DeliveredWasShown' /\ ResumedOnce' /\ ResumptionsBounded'
      BY <2>1, <3>0, ShownStep, OnceStep, BoundedStep
    <3>5. StageOK'
      BY <2>1, <3>0, StageStep
    <3> QED
      BY <3>1, <3>2, <3>3, <3>4, <3>5 DEF DecisionInv
  <2> QED
    BY <2>1, DecisionStutter
<1> QED
  BY <1>1, <1>2, PTL DEF Spec

(* Every variable keeps its type, and no invocation is attempted more often *)
(* than its budget allows, crashes included (runOperation, reconciler.go).  *)
THEOREM DecisionTypeCorrect == Spec => []TypeOK
<1>1. DecisionInv => TypeOK
  BY DEF DecisionInv
<1> QED
  BY <1>1, DecisionInvAlways, PTL

(* The journal never claims the delivery of an answer that no recorded      *)
(* attempt was shown (decisionsToDeliver, decision_resumption.go).          *)
THEOREM DeliveredWasShownAlways == Spec => []DeliveredWasShown
<1>1. DecisionInv => DeliveredWasShown
  BY DEF DecisionInv
<1> QED
  BY <1>1, DecisionInvAlways, PTL

(* No decision is resumed for under two bindings, whatever fails, dies or   *)
(* is answered in between (unresumedDecisionResumeBinding).                 *)
THEOREM ResumedOnceAlways == Spec => []ResumedOnce
<1>1. DecisionInv => ResumedOnce
  BY DEF DecisionInv
<1> QED
  BY <1>1, DecisionInvAlways, PTL

(* Resumptions and continuations together stay within the ceiling of the    *)
(* run (continuationCeilingReached).                                        *)
THEOREM ResumptionsBoundedAlways == Spec => []ResumptionsBounded
<1>1. DecisionInv => ResumptionsBounded
  BY DEF DecisionInv
<1> QED
  BY <1>1, DecisionInvAlways, PTL

(* A plan stage completes only when every question the journal held as the  *)
(* plan pass read it was refused, was replaced, or had its answer           *)
(* delivered, whatever the driver and the operator do between the reads and *)
(* the append (awaitsHumanDecision, plan_decision_hold.go).                 *)
THEOREM QuestionHoldsStageAlways == Spec => QuestionHoldsStage
<1>1. DecisionInv /\ [Next]_vars =>
        [settled' # settled =>
           \A r \in 1 .. stage.asked :
             /\ \A i \in DOMAIN observed : r \notin observed[i].asks
             /\ r \in Live => r \in answers \cap journal.delivered]_vars
  <2> SUFFICES ASSUME DecisionInv, Next, settled' # settled, NEW r \in 1 .. stage.asked
               PROVE  /\ \A i \in DOMAIN observed : r \notin observed[i].asks
                      /\ r \in Live => r \in answers \cap journal.delivered
    OBVIOUS
  <2>1. stage.at = "append"
    BY Frames DEF appendStageSettled
  <2> QED
    BY <2>1 DEF DecisionInv, StageOK
<1> QED
  BY <1>1, DecisionInvAlways, PTL DEF Spec, QuestionHoldsStage
=============================================================================
