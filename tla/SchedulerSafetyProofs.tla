------------------------ MODULE SchedulerSafetyProofs ------------------------
(***************************************************************************)
(* The scheduler's safety properties for every number of runs, operations, *)
(* processes, tools and reviews, every ceiling and every attempt budget.   *)
(*                                                                         *)
(* All of them rest on three facts about a step: what it may do to a row   *)
(* (RowStep), where it may take a driver (DriverMotion), and what it       *)
(* leaves of a revision somebody has read (Undisturbed).                   *)
(***************************************************************************)
EXTENDS SchedulerProofs

-----------------------------------------------------------------------------
(* What a step does to the rows. *)

(* The two steps that make an operation more active than it was. *)
Acquires(d) == AcquireOperation(d) /\ AcquireAllowed(d, target[d])
Starts(d) ==
  /\ StartWithin(d)
  /\ row[target[d]].state = "leased" /\ row[target[d]].lease = d[1]

(* Any other write gives no attempt, takes no identity back, makes nothing  *)
(* active, hands no lease to anybody, and does not lose a planned row.      *)
CalmDoc(o, doc) ==
  /\ doc.attempt <= row[o].attempt
  /\ doc.identity >= row[o].identity
  /\ doc.state \in {"leased", "running"} => doc.state = row[o].state
  /\ doc.lease \in {row[o].lease, NoProc}
  /\ row[o].state # "absent" => doc.state # "absent"
  /\ doc.state = "absent" => doc.identity = row[o].identity
Calm == \A o \in Ops : CalmDoc(o, row'[o])

(* A row nobody planned is blank, and a driver handles only planned rows. *)
PlannedRows ==
  /\ \A o \in Ops : row[o].state = "absent" => row[o].identity = 0
  /\ \A d \in Drivers : pc[d] \in TargetPcs => row[target[d]].state # "absent"

(* Leaving the rows alone is calm. *)
LEMMA SameCalm ==
  ASSUME TypeOK, UNCHANGED row
  PROVE  Calm
<1>1. \A o \in Ops : row[o].attempt \in Nat /\ row[o].identity \in Nat
  BY FlagSets
<1> QED
  BY <1>1 DEF Calm, CalmDoc

(* So is writing a calm document, *)
LEMMA WriteCalm ==
  ASSUME TypeOK, NEW o \in Ops, NEW doc, Write(o, doc), CalmDoc(o, doc)
  PROVE  Calm
<1>1. \A e \in Ops : row[e].attempt \in Nat /\ row[e].identity \in Nat
  BY FlagSets
<1>2. row'[o] = doc /\ \A e \in Ops \ {o} : row'[e] = row[e]
  BY DEF Write, TypeOK
<1> QED
  BY <1>1, <1>2 DEF Calm, CalmDoc

(* and changing a flag. *)
LEMMA FlagCalm ==
  ASSUME TypeOK, NEW o \in Ops, NEW f, row' = [row EXCEPT ![o].flags = f]
  PROVE  Calm
<1>1. \A e \in Ops : row[e].attempt \in Nat /\ row[e].identity \in Nat
  BY FlagSets
<1>2. row \in [Ops -> RowDoc]
  BY DEF TypeOK
<1>3. \A e \in Ops \ {o} : row'[e] = row[e]
  BY <1>2
<1>4. /\ row'[o].attempt = row[o].attempt /\ row'[o].identity = row[o].identity
      /\ row'[o].state = row[o].state /\ row'[o].lease = row[o].lease
  BY <1>2 DEF RowDoc
<1> QED
  BY <1>1, <1>3, <1>4 DEF Calm, CalmDoc

(* The calm documents: dropping a lease, settling, finishing, flagging, and *)
(* raising the identity.                                                    *)
LEMMA CalmDocs ==
  ASSUME TypeOK, NEW o \in Ops
  PROVE  /\ CalmDoc(o, [row[o] EXCEPT !.lease = NoProc])
         /\ \A f : CalmDoc(o, [row[o] EXCEPT !.flags = f])
         /\ CalmDoc(o, [row[o] EXCEPT !.state = "failed", !.lease = NoProc])
         /\ \A f : \A s \in Outcomes :
              CalmDoc(o, [row[o] EXCEPT !.state = s, !.lease = NoProc, !.flags = f])
         /\ \A i \in Nat : i > row[o].identity /\ row[o].state # "absent" =>
              CalmDoc(o, [row[o] EXCEPT !.identity = i])
         /\ \A f : \A a \in Nat : a <= row[o].attempt =>
              CalmDoc(o, [row[o] EXCEPT !.attempt = a, !.lease = NoProc, !.flags = f])
<1>1. row[o] \in RowDoc /\ row[o].attempt \in Nat /\ row[o].identity \in Nat
  BY FlagSets
<1> QED
  BY <1>1 DEF RowDoc, CalmDoc, Outcomes

(* What finishAt writes is calm. *)
LEMMA FinishedCalm ==
  ASSUME TypeOK, NEW o \in Ops, NEW s \in Outcomes, NEW defer, NEW waited
  PROVE  CalmDoc(o, Finished(o, s, defer, waited))
  BY CalmDocs DEF Finished

(* An operator's step is calm. *)
LEMMA ControlCalm ==
  ASSUME TypeOK, ControlStep
  PROVE  Calm
<1>1. PICK r \in OperatedRuns :
    \/ StopWrite(r) \/ StopList(r) \/ StopFinish(r) \/ StopReturn(r)
    \/ StopBreaks(r) \/ PauseRun(r) \/ UnpauseRun(r)
    \/ \E o \in Ops : StopRequest(r, o) \/ StopRefused(r, o)
    \/ \E disposition \in {"open", "ended"} : SettleRun(r, disposition)
  BY DEF ControlStep
<1>2. CASE StopFinish(r)
  <2>1. stopAsked[r] \in Ops
    BY <1>2, OperatedAssumption DEF StopFinish, TypeOK
  <2>2. "cancelled" \in Outcomes
    BY DEF Outcomes
  <2> QED
    BY <1>2, <2>1, <2>2, SameCalm, WriteCalm, FinishedCalm DEF StopFinish
<1>3. ASSUME NEW o \in Ops, StopRequest(r, o) PROVE Calm
  BY <1>3, WriteCalm, CalmDocs DEF StopRequest
<1>4. ASSUME NEW o \in Ops, StopRefused(r, o) PROVE Calm
  BY <1>4, WriteCalm, CalmDocs DEF StopRefused
<1> QED
  BY <1>1, <1>2, <1>3, <1>4, SameCalm DEF StopWrite, StopList, StopReturn,
     StopBreaks, PauseRun, UnpauseRun, SettleRun

(* So are crashes and the passing of time. *)
LEMMA EnvironmentCalm ==
  ASSUME TypeOK, EnvironmentStep
  PROVE  Calm
  BY SameCalm, FlagCalm
     DEF EnvironmentStep, Crash, LeaseLapses, RetryDue, BudgetElapses

(* And every step of a driver that neither acquires nor starts. *)
LEMMA DriverCalm ==
  ASSUME TypeOK, PassOK, PlannedRows, NEW d \in Drivers,
         \/ DriverMoves(d) \/ DriverFails(d)
         \/ \E o \in Ops : Plan(d, o)
         \/ \E t \in Tools : ToolRequests(d, t),
         ~Acquires(d), ~Starts(d)
  PROVE  Calm
<1> USE DEF At
<1>o. /\ pc[d] \in TargetPcs => target[d] \in Ops
      /\ pc[d] = "after" => view[d].ops[target[d]] \in Outcomes
      /\ pc[d] = "lag" => \A o \in todo[d] : view[d].ops[o] \in Outcomes
  BY DEF PassOK
<1>1. ASSUME NEW o \in Ops, Plan(d, o) PROVE Calm
  <2>1. CASE row[o].state = "absent"
    <3>1. CalmDoc(o, [AbsentRow EXCEPT !.state = "pending"])
      BY <2>1, FlagSets DEF PlannedRows, AbsentRow, CalmDoc
    <3> QED
      BY <1>1, <2>1, <3>1, WriteCalm DEF Plan
  <2> QED
    BY <1>1, <2>1, SameCalm DEF Plan
<1>2. ASSUME NEW o \in Ops, LagFinish(d, o) PROVE Calm
  <2>1. view[d].ops[o] \in Outcomes
    BY <1>2, <1>o DEF LagFinish
  <2> QED
    BY <1>2, <2>1, SameCalm, WriteCalm, FinishedCalm DEF LagFinish
<1>3. CASE ReclaimPut(d)
  <2>1. target[d] \in Ops
    BY <1>3, <1>o DEF ReclaimPut, TargetPcs
  <2> QED
    BY <1>3, <2>1, SameCalm, WriteCalm, CalmDocs DEF ReclaimPut, CompareAndSet
<1>4. CASE ExpirePut(d)
  <2>1. target[d] \in Ops
    BY <1>4, <1>o DEF ExpirePut, TargetPcs
  <2> QED
    BY <1>4, <2>1, SameCalm, WriteCalm, CalmDocs DEF ExpirePut, CompareAndSet
<1>5. CASE AcquireOperation(d)
  BY <1>5, SameCalm DEF AcquireOperation, Acquires
<1>6. CASE FinishUnstarted(d)
  <2>1. target[d] \in Ops /\ "failed" \in Outcomes
    BY <1>6, <1>o DEF FinishUnstarted, TargetPcs, HoldingPcs, Outcomes
  <2> QED
    BY <1>6, <2>1, SameCalm, WriteCalm, FinishedCalm DEF FinishUnstarted
<1>7. CASE StartWithin(d)
  BY <1>7, SameCalm DEF StartWithin, Starts
<1>8. ASSUME NEW i \in 0 .. MaxIdentity, ReserveAttemptIdentity(d, i) PROVE Calm
  <2>1. target[d] \in Ops /\ i \in Nat /\ row[target[d]].state # "absent"
    BY <1>8, <1>o, IdentityBound
       DEF ReserveAttemptIdentity, PlannedRows, TargetPcs, HoldingPcs
  <2> QED
    BY <1>8, <2>1, SameCalm, WriteCalm, CalmDocs DEF ReserveAttemptIdentity
<1>9. ASSUME NEW defer \in BOOLEAN, Finish(d, defer) PROVE Calm
  <2>1. target[d] \in Ops /\ view[d].ops[target[d]] \in Outcomes
    BY <1>9, <1>o DEF Finish, TargetPcs, HoldingPcs
  <2> QED
    BY <1>9, <2>1, SameCalm, WriteCalm, FinishedCalm DEF Finish
<1>10. ASSUME NEW refund \in BOOLEAN, RestoreAttempt(d, refund) PROVE Calm
  <2>1. target[d] \in Ops
    BY <1>10, <1>o DEF RestoreAttempt, TargetPcs, HoldingPcs
  <2> DEFINE o == target[d]
             a == IF row[o].attempt > 0 THEN row[o].attempt - 1
                                        ELSE row[o].attempt
             f == row[o].flags \ ({"active"} \cup
                                  IF refund THEN {"expired"} ELSE {})
  <2>2. a \in Nat /\ a <= row[o].attempt
    BY <2>1, FlagSets
  <2>3. Write(o, [row[o] EXCEPT !.attempt = a, !.lease = NoProc, !.flags = f])
        \/ UNCHANGED row
    BY <1>10 DEF RestoreAttempt
  <2> HIDE DEF a, f
  <2> QED
    BY <2>1, <2>2, <2>3, SameCalm, WriteCalm, CalmDocs
<1>11. CASE Relinquish(d)
  <2>1. target[d] \in Ops
    BY <1>11, <1>o DEF Relinquish, TargetPcs, HoldingPcs
  <2> QED
    BY <1>11, <2>1, SameCalm, WriteCalm, CalmDocs DEF Relinquish
<1>12. ASSUME \/ Load(d) \/ CheckDrivers(d) \/ NothingWanted(d)
              \/ AttemptsExhausted(d) \/ BeginNext(d) \/ ScanCandidates(d)
              \/ NothingLeased(d) \/ JournalStale(d) \/ JournalBefore(d)
              \/ KeepAttempt(d) \/ DriverFails(d)
              \/ \E o \in Ops : ReclaimRead(d, o) \/ CandidateRead(d, o)
              \/ \E t \in Tools : ToolRequests(d, t)
              \/ \E outcome \in Outcomes : JournalAfter(d, outcome)
       PROVE  Calm
  <2>1. UNCHANGED row
    BY <1>12 DEF Load, CheckDrivers, NothingWanted, AttemptsExhausted, BeginNext,
       ScanCandidates, NothingLeased, JournalStale, JournalBefore, KeepAttempt,
       DriverFails, ReclaimRead, CandidateRead, ToolRequests,
       RequestVerification, permitRest, JournalAfter
  <2> QED
    BY <2>1, SameCalm
<1> QED
  BY <1>1, <1>2, <1>3, <1>4, <1>5, <1>6, <1>7, <1>8, <1>9, <1>10, <1>11, <1>12
     DEF DriverMoves

(* Every step is calm, acquires, or starts. *)
LEMMA RowStep ==
  ASSUME TypeOK, PassOK, PlannedRows, [Next]_vars
  PROVE  Calm \/ \E d \in Drivers : Acquires(d) \/ Starts(d)
<1>1. CASE UNCHANGED vars
  BY <1>1, SameCalm DEF vars, storeVars
<1>2. CASE PermitStep
  <2>1. UNCHANGED row
    BY <1>2 DEF PermitStep, AcquireVerification, ReleaseVerification, ToolExits,
       PermitLapses, ReleaseReviewSlot, ClaimLapses, ClaimReviewSlot, permitRest
  <2> QED
    BY <2>1, SameCalm
<1> QED
  BY <1>1, <1>2, ControlCalm, EnvironmentCalm, DriverCalm DEF Next, DriverStep

(* What an acquisition leaves behind. *)
LEMMA AcquireEffect ==
  ASSUME TypeOK, PassOK, NEW d \in Drivers, Acquires(d)
  PROVE  /\ target[d] \in Ops /\ pc[d] = "acquire" /\ seen[d] = target[d]
         /\ row'[target[d]].state = "leased" /\ row'[target[d]].lease = d[1]
         /\ row'[target[d]].attempt = row[target[d]].attempt
         /\ row'[target[d]].identity = row[target[d]].identity
         /\ \A o \in Ops \ {target[d]} : row'[o] = row[o]
         /\ \A e \in Drivers : seen'[e] # target[d]
         /\ UNCHANGED <<runRow, permit, claim, alive, stop, stopTodo>>
<1>1. /\ target[d] \in Ops /\ pc[d] = "acquire" /\ seen[d] = target[d]
      /\ Write(target[d], [row[target[d]] EXCEPT !.state = "leased",
                           !.lease = d[1], !.flags = @ \ {"lapsed"}])
      /\ UNCHANGED <<runRow, permit, claim, alive, stop, stopTodo>>
  BY DEF Acquires, AcquireOperation, AcquireAllowed, At, PassOK, TargetPcs,
     rowRest, driverRest, controlVars
<1>2. row \in [Ops -> RowDoc] /\ row[target[d]] \in RowDoc
  BY <1>1 DEF TypeOK
<1>3. target[d] # NoOp
  BY <1>1, SentinelsAssumption
<1> QED
  BY <1>1, <1>2, <1>3 DEF Write, RowDoc

(* What a start leaves behind. *)
LEMMA StartEffect ==
  ASSUME TypeOK, PassOK, NEW d \in Drivers, Starts(d)
  PROVE  /\ target[d] \in Ops /\ pc[d] = "leased"
         /\ row[target[d]].state = "leased" /\ row[target[d]].lease = d[1]
         /\ row'[target[d]].state = "running" /\ row'[target[d]].lease = d[1]
         /\ row'[target[d]].attempt = row[target[d]].attempt + 1
         /\ row'[target[d]].identity = row[target[d]].identity + 1
         /\ \A o \in Ops \ {target[d]} : row'[o] = row[o]
         /\ \A e \in Drivers : seen'[e] # target[d]
         /\ UNCHANGED <<runRow, permit, claim, alive, stop, stopTodo>>
<1>1. /\ target[d] \in Ops /\ pc[d] = "leased"
      /\ row[target[d]].state = "leased" /\ row[target[d]].lease = d[1]
      /\ UNCHANGED <<runRow, permit, claim, alive, stop, stopTodo>>
  BY DEF Starts, StartWithin, At, PassOK, TargetPcs, HoldingPcs,
     driverRest, controlVars
<1>2. PICK f : Write(target[d], [row[target[d]] EXCEPT !.state = "running",
                 !.attempt = @ + 1, !.identity = @ + 1, !.flags = f])
  BY <1>1 DEF Starts, StartWithin
<1>3. row \in [Ops -> RowDoc] /\ row[target[d]] \in RowDoc
  BY <1>1 DEF TypeOK
<1>4. target[d] # NoOp
  BY <1>1, SentinelsAssumption
<1> QED
  BY <1>1, <1>2, <1>3, <1>4 DEF Write, RowDoc

-----------------------------------------------------------------------------
(* What a step leaves of the revisions that were read. *)

(* A revision is still current only while lease and attempt stand. *)
Undisturbed(e) ==
  /\ seen'[e] \in {seen[e], NoOp}
  /\ seen'[e] # NoOp => /\ row'[seen[e]].lease = row[seen[e]].lease
                        /\ row'[seen[e]].attempt = row[seen[e]].attempt

(* Leaving rows and readers alone disturbs nobody, *)
LEMMA SameUndisturbed ==
  ASSUME UNCHANGED <<row, seen>>
  PROVE  \A e \in Drivers : Undisturbed(e)
  BY DEF Undisturbed

(* nor does a write, which takes the row out of its readers' hands, *)
LEMMA WriteUndisturbed ==
  ASSUME TypeOK, NEW o \in Ops, NEW doc, Write(o, doc)
  PROVE  \A e \in Drivers : Undisturbed(e)
  BY DEF TypeOK, Write, Undisturbed

(* nor a flag. *)
LEMMA FlagUndisturbed ==
  ASSUME TypeOK, NEW o \in Ops, NEW f, row' = [row EXCEPT ![o].flags = f],
         UNCHANGED seen
  PROVE  \A e \in Drivers : Undisturbed(e)
<1>1. row \in [Ops -> RowDoc] /\ seen \in [Drivers -> Ops \cup {NoOp}]
  BY DEF TypeOK
<1>2. \A e \in Ops \ {o} : row'[e] = row[e]
  BY <1>1
<1>3. row'[o].lease = row[o].lease /\ row'[o].attempt = row[o].attempt
  BY <1>1 DEF RowDoc
<1> QED
  BY <1>1, <1>2, <1>3 DEF Undisturbed

-----------------------------------------------------------------------------
(* Where a step takes a driver. *)

(* A driver begins to handle an operation by reading its row. *)
Reads(d) ==
  \E o \in Ops :
    /\ target'[d] = o /\ seen'[d] = o
    /\ UNCHANGED <<row, alive>>
    /\ \A e \in Drivers \ {d} : UNCHANGED <<pc[e], target[e]>>
    /\ \/ pc'[d] = "reclaimPut" /\ Active(o) /\ abandoned(d[1], o)
       \/ /\ pc[d] = "scan" /\ pc'[d] \in {"expirePut", "acquire"}
          /\ leasable(o) /\ o \in todo[d] /\ todo'[d] = todo[d]

(* It comes to hold one only by acquiring it, it looks for candidates only  *)
(* among its own run's, and it ends with its process.                       *)
Moved(d) ==
  /\ Undisturbed(d) \/ Reads(d)
  /\ pc'[d] \in TargetPcs \ HoldingPcs =>
       \/ pc'[d] = pc[d] /\ target'[d] = target[d] /\ Undisturbed(d)
            /\ todo'[d] = todo[d]
       \/ Reads(d)
  /\ pc'[d] \in HoldingPcs =>
       target'[d] = target[d] /\ (pc[d] \in HoldingPcs \/ Acquires(d))
  /\ pc'[d] = "scan" =>
       \/ pc[d] \in {"scan", "expirePut", "acquire"} /\ todo'[d] \subseteq todo[d]
       \/ \A o \in todo'[d] : RunOf[o] = d[2]
  /\ pc'[d] # "dead" =>
       pc[d] # "dead" /\ (d[1] \in alive => d[1] \in alive')
  /\ alive' \subseteq alive

(* A step that leaves the drivers where they are. *)
LEMMA StandsStill ==
  ASSUME NEW e \in Drivers, UNCHANGED <<pc[e], target[e], todo[e], alive>>,
         Undisturbed(e)
  PROVE  Moved(e)
  BY DEF Moved

(* The writes of a driver's step disturb nobody. *)
LEMMA DriverUndisturbed ==
  ASSUME TypeOK, PassOK, NEW d \in Drivers,
         \/ DriverMoves(d) \/ DriverFails(d)
         \/ \E o \in Ops : Plan(d, o)
         \/ \E t \in Tools : ToolRequests(d, t)
  PROVE  \/ \A e \in Drivers : Undisturbed(e)
         \/ \E o \in Ops : (ReclaimRead(d, o) \/ CandidateRead(d, o)) /\ ReadRow(d, o)
<1> USE DEF At
<1> DEFINE Goal == \A e \in Drivers : Undisturbed(e)
<1>o. pc[d] \in TargetPcs => target[d] \in Ops
  BY DEF PassOK
<1>1. ASSUME NEW o \in Ops, Plan(d, o) \/ LagFinish(d, o) PROVE Goal
  BY <1>1, SameUndisturbed, WriteUndisturbed DEF Plan, LagFinish
<1>2. CASE \/ ReclaimPut(d) \/ ExpirePut(d) \/ AcquireOperation(d)
           \/ FinishUnstarted(d) \/ StartWithin(d) \/ Relinquish(d)
           \/ \E i \in 0 .. MaxIdentity : ReserveAttemptIdentity(d, i)
           \/ \E defer \in BOOLEAN : Finish(d, defer)
           \/ \E refund \in BOOLEAN : RestoreAttempt(d, refund)
  <2>1. target[d] \in Ops
    BY <1>2, <1>o DEF ReclaimPut, ExpirePut, AcquireOperation, FinishUnstarted,
       StartWithin, Relinquish, ReserveAttemptIdentity, Finish, RestoreAttempt,
       TargetPcs, HoldingPcs
  <2>2. UNCHANGED <<row, seen>> \/ \E doc : Write(target[d], doc)
    BY <1>2 DEF ReclaimPut, ExpirePut, AcquireOperation, FinishUnstarted,
       StartWithin, Relinquish, ReserveAttemptIdentity, Finish, RestoreAttempt,
       CompareAndSet
  <2> QED
    BY <2>1, <2>2, SameUndisturbed, WriteUndisturbed
<1>3. CASE \/ Load(d) \/ CheckDrivers(d) \/ NothingWanted(d)
           \/ AttemptsExhausted(d) \/ BeginNext(d) \/ ScanCandidates(d)
           \/ NothingLeased(d) \/ JournalStale(d) \/ JournalBefore(d)
           \/ KeepAttempt(d) \/ DriverFails(d)
           \/ \E t \in Tools : ToolRequests(d, t)
           \/ \E outcome \in Outcomes : JournalAfter(d, outcome)
  <2>1. UNCHANGED <<row, seen>>
    BY <1>3 DEF Load, CheckDrivers, NothingWanted, AttemptsExhausted, BeginNext,
       ScanCandidates, NothingLeased, JournalStale, JournalBefore, KeepAttempt,
       DriverFails, ToolRequests, RequestVerification, permitRest, JournalAfter
  <2> QED
    BY <2>1, SameUndisturbed
<1>4. ASSUME NEW o \in Ops, ReclaimRead(d, o) \/ CandidateRead(d, o), ~ReadRow(d, o)
      PROVE  Goal
  BY <1>4, SameUndisturbed DEF ReclaimRead, CandidateRead
<1> QED
  BY <1>1, <1>2, <1>3, <1>4 DEF DriverMoves

(* Every step of a driver moves it, and nobody else, as described. *)
LEMMA DriverMotion ==
  ASSUME TypeOK, PassOK, NEW d \in Drivers,
         \/ DriverMoves(d) \/ DriverFails(d)
         \/ \E o \in Ops : Plan(d, o)
         \/ \E t \in Tools : ToolRequests(d, t)
  PROVE  \A e \in Drivers : Moved(e)
<1> USE DEF rowRest, driverRest, driverVars, At, Go, Handle, Skip, ReadRow
<1>t. /\ pc \in [Drivers -> Pcs] /\ todo \in [Drivers -> SUBSET Ops]
      /\ target \in [Drivers -> Ops \cup {NoOp}]
      /\ seen \in [Drivers -> Ops \cup {NoOp}]
  BY DEF TypeOK
<1>a. UNCHANGED alive
  BY DEF DriverMoves, Load, CheckDrivers, NothingWanted, AttemptsExhausted,
     BeginNext, ScanCandidates, NothingLeased, JournalStale, JournalBefore,
     KeepAttempt, DriverFails, ToolRequests, RequestVerification, permitRest,
     JournalAfter, ReclaimPut, ExpirePut, AcquireOperation, FinishUnstarted,
     StartWithin, Relinquish, ReserveAttemptIdentity, Finish, RestoreAttempt,
     Plan, LagFinish, ReclaimRead, CandidateRead
<1>e. \A e \in Drivers \ {d} : UNCHANGED <<pc[e], target[e], todo[e]>>
  BY <1>t DEF DriverMoves, Load, CheckDrivers, NothingWanted, AttemptsExhausted,
     BeginNext, ScanCandidates, NothingLeased, JournalStale, JournalBefore,
     KeepAttempt, DriverFails, ToolRequests, RequestVerification, permitRest,
     JournalAfter, ReclaimPut, ExpirePut, AcquireOperation, FinishUnstarted,
     StartWithin, Relinquish, ReserveAttemptIdentity, Finish, RestoreAttempt,
     Plan, LagFinish, ReclaimRead, CandidateRead
<1>1. ASSUME NEW o \in Ops, ReclaimRead(d, o) \/ CandidateRead(d, o), ReadRow(d, o)
      PROVE  \A e \in Drivers : Moved(e)
  <2>1. ASSUME NEW e \in Drivers \ {d} PROVE Moved(e)
    <3>1. Undisturbed(e)
      BY <1>1, <1>t DEF ReclaimRead, CandidateRead, Undisturbed
    <3> QED
      BY <1>a, <1>e, <3>1, StandsStill
  <2> SUFFICES Moved(d)
    BY <2>1
  <2>2. UNCHANGED row /\ seen'[d] = o
    BY <1>1, <1>t DEF ReclaimRead, CandidateRead
  <2>3. CASE ReclaimRead(d, o) /\ Active(o) /\ abandoned(d[1], o)
    <3>1. Reads(d) /\ pc[d] = "reclaim" /\ pc'[d] = "reclaimPut"
      BY <2>2, <2>3, <1>a, <1>e, <1>t DEF ReclaimRead, Reads
    <3> QED
      BY <3>1, <1>a DEF Moved, HoldingPcs
  <2>4. CASE CandidateRead(d, o) /\ leasable(o)
    <3>1. Reads(d) /\ pc[d] = "scan" /\ pc'[d] \in {"expirePut", "acquire"}
      BY <2>2, <2>4, <1>a, <1>e, <1>t DEF CandidateRead, Reads
    <3> QED
      BY <3>1, <1>a DEF Moved, HoldingPcs
  <2>5. CASE ReclaimRead(d, o) /\ ~(Active(o) /\ abandoned(d[1], o))
    <3>1. Undisturbed(d)
      BY <2>2, <2>5 DEF ReclaimRead, Undisturbed
    <3> QED
      BY <2>5, <3>1, <1>a, <1>t DEF ReclaimRead, Moved, TargetPcs, HoldingPcs
  <2>6. CASE CandidateRead(d, o) /\ ~leasable(o)
    <3>1. Undisturbed(d)
      BY <2>2, <2>6 DEF CandidateRead, Undisturbed
    <3> QED
      BY <2>6, <3>1, <1>a, <1>t DEF CandidateRead, Moved, TargetPcs, HoldingPcs
  <2> QED
    BY <1>1, <2>3, <2>4, <2>5, <2>6
<1>2. ASSUME \A e \in Drivers : Undisturbed(e)
      PROVE  \A e \in Drivers : Moved(e)
  <2>1. \A e \in Drivers \ {d} : Moved(e)
    BY <1>2, <1>a, <1>e, StandsStill
  <2> SUFFICES Moved(d)
    BY <2>1
  <2>u. Undisturbed(d)
    BY <1>2
  <2> USE DEF Moved, TargetPcs, HoldingPcs
  <2>2. CASE \/ Load(d) \/ CheckDrivers(d) \/ NothingWanted(d)
             \/ AttemptsExhausted(d) \/ BeginNext(d) \/ NothingLeased(d)
             \/ ReclaimPut(d) \/ Relinquish(d)
             \/ \E o \in Ops : Plan(d, o) \/ LagFinish(d, o)
    <3>1. /\ pc[d] # "dead"
          /\ pc'[d] \in {"idle", "lag", "clear", "exhausted", "planned", "reclaim"}
      BY <2>2, <1>t DEF Load, CheckDrivers, NothingWanted, AttemptsExhausted,
         BeginNext, NothingLeased, ReclaimPut, Relinquish, Plan, LagFinish
    <3> QED
      BY <3>1, <2>u, <1>a
  <2>3. CASE ScanCandidates(d)
    <3>1. /\ pc[d] # "dead" /\ pc'[d] = "scan"
          /\ \A o \in todo'[d] : RunOf[o] = d[2]
      BY <2>3, <1>t DEF ScanCandidates
    <3> QED
      BY <3>1, <2>u, <1>a
  <2>4. CASE ExpirePut(d) \/ (AcquireOperation(d) /\ ~Acquires(d))
    <3>1. /\ pc[d] \in {"expirePut", "acquire"} /\ pc'[d] = "scan"
          /\ todo'[d] \subseteq todo[d]
      BY <2>4, <1>t DEF ExpirePut, AcquireOperation, Acquires
    <3> QED
      BY <3>1, <2>u, <1>a
  <2>5. CASE Acquires(d)
    <3>1. pc[d] = "acquire" /\ pc'[d] = "leased" /\ target'[d] = target[d]
      BY <2>5, <1>t DEF Acquires, AcquireOperation
    <3> QED
      BY <2>5, <3>1, <2>u, <1>a
  <2>6. CASE \/ FinishUnstarted(d) \/ JournalStale(d) \/ StartWithin(d)
             \/ JournalBefore(d) \/ KeepAttempt(d)
             \/ \E i \in 0 .. MaxIdentity : ReserveAttemptIdentity(d, i)
             \/ \E outcome \in Outcomes : JournalAfter(d, outcome)
             \/ \E defer \in BOOLEAN : Finish(d, defer)
             \/ \E refund \in BOOLEAN : RestoreAttempt(d, refund)
    <3>1. /\ pc[d] \in HoldingPcs /\ pc'[d] \in HoldingPcs
          /\ target'[d] = target[d]
      BY <2>6, <1>t DEF FinishUnstarted, JournalStale, StartWithin, JournalBefore,
         KeepAttempt, ReserveAttemptIdentity, JournalAfter, Finish, RestoreAttempt
    <3> QED
      BY <3>1, <2>u, <1>a
  <2>7. CASE DriverFails(d)
    <3>1. /\ pc[d] # "dead"
          /\ \/ pc'[d] = "idle"
             \/ /\ pc[d] \in HoldingPcs /\ pc'[d] = "exit"
                /\ target'[d] = target[d]
      BY <2>7, <1>t DEF DriverFails, PassPcs, NextPcs
    <3> QED
      BY <3>1, <2>u, <1>a
  <2>8. ASSUME NEW t \in Tools, ToolRequests(d, t) PROVE Moved(d)
    BY <2>8, <2>u, <1>a DEF ToolRequests
  <2>9. ASSUME NEW o \in Ops, ReclaimRead(d, o) \/ CandidateRead(d, o),
               ~ReadRow(d, o)
        PROVE  Moved(d)
    <3>1. /\ pc[d] \in {"reclaim", "scan"} /\ pc'[d] = pc[d]
          /\ todo'[d] \subseteq todo[d]
      BY <2>9, <1>t DEF ReclaimRead, CandidateRead
    <3> QED
      BY <3>1, <2>u, <1>a
  <2> QED
    BY <1>1, <2>2, <2>3, <2>4, <2>5, <2>6, <2>7, <2>8, <2>9
       DEF DriverMoves
<1> QED
  BY <1>1, <1>2, DriverUndisturbed

(* Every step moves every driver as described. *)
LEMMA Motion ==
  ASSUME TypeOK, PassOK, [Next]_vars
  PROVE  \A e \in Drivers : Moved(e)
<1>t. /\ pc \in [Drivers -> Pcs] /\ todo \in [Drivers -> SUBSET Ops]
      /\ target \in [Drivers -> Ops \cup {NoOp}]
      /\ seen \in [Drivers -> Ops \cup {NoOp}]
  BY DEF TypeOK
<1>1. ASSUME UNCHANGED <<pc, target, todo, alive>>,
             \/ UNCHANGED <<row, seen>>
             \/ \E o \in Ops : \E doc : Write(o, doc)
             \/ \E o \in Ops : \E f : row' = [row EXCEPT ![o].flags = f]
                                   /\ UNCHANGED seen
      PROVE  \A e \in Drivers : Moved(e)
  <2>1. \A e \in Drivers : Undisturbed(e)
    BY <1>1, SameUndisturbed, WriteUndisturbed, FlagUndisturbed
  <2> QED
    BY <1>1, <2>1, StandsStill
<1>2. CASE ControlStep /\ UNCHANGED driverVars
  <2>1. PICK r \in OperatedRuns :
      \/ StopWrite(r) \/ StopList(r) \/ StopFinish(r) \/ StopReturn(r)
      \/ StopBreaks(r) \/ PauseRun(r) \/ UnpauseRun(r)
      \/ \E o \in Ops : StopRequest(r, o) \/ StopRefused(r, o)
      \/ \E disposition \in {"open", "ended"} : SettleRun(r, disposition)
    BY <1>2 DEF ControlStep
  <2>2. stopAsked[r] \in Ops \cup {NoOp}
    BY OperatedAssumption DEF TypeOK
  <2>3. UNCHANGED <<pc, target, todo, alive>>
    BY <1>2, <2>1 DEF driverVars, controlRest, StopWrite, StopList, StopFinish,
       StopReturn, StopBreaks, PauseRun, UnpauseRun, StopRequest, StopRefused,
       SettleRun
  <2>4. UNCHANGED <<row, seen>> \/ \E o \in Ops : \E doc : Write(o, doc)
    BY <2>1, <2>2 DEF StopWrite, StopList, StopFinish, StopReturn, StopBreaks,
       PauseRun, UnpauseRun, StopRequest, StopRefused, SettleRun
  <2> QED
    BY <1>1, <2>3, <2>4
<1>3. CASE PermitStep /\ UNCHANGED <<controlVars, driverVars>>
  <2>1. UNCHANGED <<row, seen, alive>>
    BY <1>3 DEF PermitStep, AcquireVerification, ReleaseVerification, ToolExits,
       PermitLapses, ReleaseReviewSlot, ClaimLapses, ClaimReviewSlot, permitRest
  <2> QED
    BY <1>1, <1>3, <2>1 DEF driverVars
<1>4. ASSUME NEW o \in Ops, LeaseLapses(o) \/ RetryDue(o) \/ BudgetElapses(o)
      PROVE  \A e \in Drivers : Moved(e)
  <2>1. UNCHANGED <<pc, target, todo, alive, seen>>
    BY <1>4 DEF LeaseLapses, RetryDue, BudgetElapses, driverVars, driverRest
  <2>2. \E f : row' = [row EXCEPT ![o].flags = f]
    BY <1>4 DEF LeaseLapses, RetryDue, BudgetElapses
  <2> QED
    BY <1>1, <2>1, <2>2
<1>5. ASSUME NEW p \in Procs, Crash(p) PROVE \A e \in Drivers : Moved(e)
  <2> SUFFICES ASSUME NEW e \in Drivers PROVE Moved(e)
    OBVIOUS
  <2>1. Undisturbed(e)
    BY <1>5, <1>t DEF Crash, Undisturbed
  <2>2. CASE e[1] = p
    BY <1>5, <2>1, <2>2 DEF Crash, Moved, TargetPcs, HoldingPcs
  <2>3. CASE e[1] # p
    <3>1. UNCHANGED <<pc[e], target[e], todo[e]>> /\ (e[1] \in alive => e[1] \in alive')
          /\ alive' \subseteq alive
      BY <1>5, <2>3 DEF Crash
    <3> QED
      BY <2>1, <3>1 DEF Moved
  <2> QED
    BY <2>2, <2>3
<1>6. CASE UNCHANGED vars
  BY <1>1, <1>6 DEF vars, storeVars, driverVars
<1> QED
  BY <1>2, <1>3, <1>4, <1>5, <1>6, DriverMotion
     DEF Next, DriverStep, EnvironmentStep

-----------------------------------------------------------------------------
(* The inductive invariant. *)

(* A driver scans, and holds, only operations of the run it drives. *)
OwnRun ==
  \A d \in Drivers :
    /\ pc[d] \in {"scan", "expirePut", "acquire"} =>
         \A o \in todo[d] : RunOf[o] = d[2]
    /\ pc[d] \in {"expirePut", "acquire"} \cup HoldingPcs =>
         RunOf[target[d]] = d[2]

(* Whoever drives is alive. *)
Living == \A d \in Drivers : pc[d] # "dead" => d[1] \in alive

(* What a driver judged when it read a row is still so while its revision   *)
(* is current: a row about to be acquired has an attempt left and no living *)
(* holder, and a lease about to be dropped is held by no driver.            *)
JudgedBy(d) ==
  seen[d] = target[d] =>
    /\ pc[d] = "acquire" =>
         /\ row[target[d]].attempt < MaxAttempts[target[d]]
         /\ row[target[d]].lease \notin alive
    /\ pc[d] = "reclaimPut" =>
         ~(/\ row[target[d]].lease \in alive
           /\ Holds(row[target[d]].lease, target[d]))
Judged == \A d \in Drivers : JudgedBy(d)

(* The attempt of a leased row has not been counted yet. *)
Budget ==
  \A o \in Ops :
    /\ row[o].attempt <= MaxAttempts[o]
    /\ row[o].state = "leased" => row[o].attempt < MaxAttempts[o]

DriverInv == PlannedRows /\ OwnRun /\ Living /\ Judged /\ Budget

(* Rows stay planned. *)
LEMMA PlannedRowsStep ==
  ASSUME TypeOK, PassOK, DriverInv, [Next]_vars
  PROVE  PlannedRows'
<1>1. \A o \in Ops : row[o].state # "absent" => row'[o].state # "absent"
  BY RowStep, AcquireEffect, StartEffect DEF DriverInv, Calm, CalmDoc
<1>2. ASSUME NEW o \in Ops, row'[o].state = "absent"
      PROVE  row'[o].identity = 0
  BY <1>1, <1>2, RowStep, AcquireEffect, StartEffect
     DEF DriverInv, PlannedRows, Calm, CalmDoc
<1>3. ASSUME NEW d \in Drivers, pc'[d] \in TargetPcs
      PROVE  row'[target'[d]].state # "absent"
  <2>1. CASE Reads(d)
    BY <2>1 DEF Reads, leasable, CanAcquire, Active
  <2>2. CASE ~Reads(d)
    <3>1. target'[d] = target[d] /\ pc[d] \in TargetPcs
      BY <1>3, <2>2, Motion, AcquireEffect DEF Moved, TargetPcs
    <3>2. target[d] \in Ops /\ row[target[d]].state # "absent"
      BY <3>1 DEF PassOK, DriverInv, PlannedRows
    <3> QED
      BY <1>1, <3>1, <3>2
  <2> QED
    BY <2>1, <2>2
<1> QED
  BY <1>2, <1>3 DEF PlannedRows

(* Drivers stay with their run. *)
LEMMA OwnRunStep ==
  ASSUME TypeOK, PassOK, DriverInv, [Next]_vars
  PROVE  OwnRun'
<1> SUFFICES ASSUME NEW d \in Drivers
             PROVE  /\ pc'[d] \in {"scan", "expirePut", "acquire"} =>
                         \A o \in todo'[d] : RunOf[o] = d[2]
                    /\ pc'[d] \in {"expirePut", "acquire"} \cup HoldingPcs =>
                         RunOf[target'[d]] = d[2]
  BY DEF OwnRun
<1>m. Moved(d)
  BY Motion
<1>i. /\ pc[d] \in {"scan", "expirePut", "acquire"} =>
           \A o \in todo[d] : RunOf[o] = d[2]
      /\ pc[d] \in {"expirePut", "acquire"} \cup HoldingPcs =>
           RunOf[target[d]] = d[2]
  BY DEF DriverInv, OwnRun
<1>1. CASE pc'[d] = "scan"
  BY <1>1, <1>m, <1>i DEF Moved, HoldingPcs
<1>2. CASE pc'[d] \in {"expirePut", "acquire"}
  <2>1. CASE Reads(d)
    BY <1>2, <1>i, <2>1 DEF Reads, HoldingPcs
  <2> QED
    BY <1>2, <1>m, <1>i, <2>1 DEF Moved, TargetPcs, HoldingPcs
<1>3. CASE pc'[d] \in HoldingPcs
  BY <1>3, <1>m, <1>i, AcquireEffect DEF Moved, HoldingPcs
<1> QED
  BY <1>1, <1>2, <1>3

(* Whoever drives stays alive. *)
LEMMA LivingStep ==
  ASSUME TypeOK, PassOK, DriverInv, [Next]_vars
  PROVE  Living'
  BY Motion DEF DriverInv, Living, Moved

(* Attempts stay within the budget. *)
LEMMA BudgetStep ==
  ASSUME TypeOK, PassOK, DriverInv, [Next]_vars
  PROVE  Budget'
<1>t. \A o \in Ops : row[o].attempt \in Nat /\ MaxAttempts[o] \in Nat
  BY FlagSets, OpsAssumption
<1>r. \A o \in Ops : row'[o].attempt \in Nat
  BY NextType DEF TypeOK, RowDoc
<1>1. CASE Calm
  BY <1>1, <1>t, <1>r DEF Calm, CalmDoc, DriverInv, Budget
<1>2. ASSUME NEW d \in Drivers, Acquires(d) PROVE Budget'
  <2>1. row[target[d]].attempt < MaxAttempts[target[d]]
    BY <1>2, AcquireEffect DEF DriverInv, Judged, JudgedBy
  <2> QED
    BY <1>2, <1>t, <1>r, <2>1, AcquireEffect DEF DriverInv, Budget
<1>3. ASSUME NEW d \in Drivers, Starts(d) PROVE Budget'
  BY <1>3, <1>t, <1>r, StartEffect DEF DriverInv, Budget
<1> QED
  BY <1>1, <1>2, <1>3, RowStep DEF DriverInv

(* What was judged stays so while the revision is current. *)
LEMMA JudgedStep ==
  ASSUME TypeOK, PassOK, DriverInv, [Next]_vars
  PROVE  Judged'
<1> DEFINE HoldsNext(p, x) == \E g \in Drivers :
             g = <<p, RunOf[x]>> /\ pc'[g] \in HoldingPcs /\ target'[g] = x
<1> SUFFICES ASSUME NEW d \in Drivers, NEW o, o = target'[d], seen'[d] = o,
                    pc'[d] \in {"acquire", "reclaimPut"}
             PROVE  /\ pc'[d] = "acquire" => /\ row'[o].attempt < MaxAttempts[o]
                                            /\ row'[o].lease \notin alive'
                    /\ pc'[d] = "reclaimPut" =>
                         ~(row'[o].lease \in alive' /\ HoldsNext(row'[o].lease, o))
  BY DEF Judged, JudgedBy, Holds
<1>m. \A e \in Drivers : Moved(e)
  BY Motion
<1>n. NoProc \notin alive /\ alive' \subseteq alive
  BY <1>m, SentinelsAssumption DEF TypeOK, Moved
<1>1. CASE Reads(d)
  <2>1. /\ o \in Ops /\ UNCHANGED <<row, alive>>
        /\ \A e \in Drivers \ {d} : UNCHANGED <<pc[e], target[e]>>
        /\ \/ pc'[d] = "reclaimPut" /\ abandoned(d[1], o)
           \/ pc'[d] \in {"expirePut", "acquire"} /\ leasable(o)
    BY <1>1 DEF Reads
  <2>2. CASE pc'[d] = "acquire"
    BY <2>1, <2>2, <1>n DEF leasable, CanAcquire
  <2>3. CASE pc'[d] = "reclaimPut"
    <3>1. HoldsNext(row[o].lease, o) => Holds(row[o].lease, o)
      BY <2>1, <2>3 DEF Holds, HoldingPcs
    <3> QED
      BY <2>1, <2>3, <3>1, <1>n DEF abandoned, CanAcquire, stranded
  <2> QED
    BY <2>2, <2>3
<1>2. CASE ~Reads(d)
  <2>1. /\ pc'[d] = pc[d] /\ o = target[d] /\ Undisturbed(d)
    BY <1>2, <1>m DEF Moved, TargetPcs, HoldingPcs
  <2>2. o \in Ops /\ o # NoOp
    BY <2>1, SentinelsAssumption DEF PassOK, TargetPcs
  <2>3. /\ seen[d] = target[d]
        /\ row'[o].lease = row[o].lease /\ row'[o].attempt = row[o].attempt
    BY <2>1, <2>2 DEF Undisturbed
  <2>4. JudgedBy(d)
    BY DEF DriverInv, Judged
  <2>5. ASSUME HoldsNext(row[o].lease, o) PROVE Holds(row[o].lease, o)
    <3>1. PICK g \in Drivers : /\ g = <<row[o].lease, RunOf[o]>>
                              /\ pc'[g] \in HoldingPcs /\ target'[g] = o
      BY <2>5
    <3>2. target[g] = o /\ (pc[g] \in HoldingPcs \/ Acquires(g))
      BY <3>1, <1>m DEF Moved
    <3>3. ~Acquires(g)
      BY <3>2, AcquireEffect
    <3> QED
      BY <3>1, <3>2, <3>3 DEF Holds
  <2> HIDE DEF HoldsNext
  <2> QED
    BY <2>1, <2>3, <2>4, <2>5, <1>n DEF JudgedBy
<1> QED
  BY <1>1, <1>2

(* The empty store satisfies the invariant. *)
LEMMA DriverInvInit == Init => DriverInv
  BY OpsAssumption, DriversAssumption
     DEF Init, StoreInit, DriverInv, PlannedRows, OwnRun, Living, Judged, JudgedBy,
     Budget, AbsentRow, TargetPcs, HoldingPcs

(* Every step preserves it. *)
LEMMA DriverInvStep ==
  ASSUME TypeOK, PassOK, DriverInv, [Next]_vars
  PROVE  DriverInv'
  BY PlannedRowsStep, OwnRunStep, LivingStep, JudgedStep, BudgetStep DEF DriverInv

(* Every reachable state of the scheduler satisfies it: a driver handles    *)
(* planned operations of its own run, and what it judged of a row holds for *)
(* as long as the revision it read is current.                              *)
THEOREM DriverInvAlways == Spec => []DriverInv
  BY InitType, NextType, DriverInvInit, DriverInvStep, PTL DEF Spec

-----------------------------------------------------------------------------
(* Attempts and identities. *)

(* No operation is ever started beyond its attempt budget, for any budgets  *)
(* and any number of drivers: Next checks the budget on a revision, and     *)
(* AcquireOperation grants a lease only at that revision.                   *)
THEOREM AttemptsWithinBudgetAlways == Spec => []AttemptsWithinBudget
<1>1. DriverInv => AttemptsWithinBudget
  BY DEF DriverInv, Budget, AttemptsWithinBudget
<1> QED
  BY <1>1, DriverInvAlways, PTL

(* A physical attempt identity is never given out twice, however many       *)
(* drivers start, reserve, restore and plan.                                *)
THEOREM IdentityNeverReusedAlways == Spec => IdentityNeverReused
<1>1. ASSUME TypeOK, PassOK, DriverInv, [Next]_vars
      PROVE  \A o \in Ops :
               /\ row'[o].identity >= row[o].identity
               /\ row[o].state # "running" /\ row'[o].state = "running" =>
                    row'[o].identity > row[o].identity
  <2>t. \A o \in Ops : row[o].identity \in Nat
    BY <1>1, FlagSets
  <2>1. CASE Calm
    BY <2>1 DEF Calm, CalmDoc
  <2>2. ASSUME NEW d \in Drivers, Acquires(d)
        PROVE  \A o \in Ops : row'[o].identity = row[o].identity
                 /\ (row'[o].state = "running" => row[o].state = "running")
    BY <1>1, <2>2, AcquireEffect
  <2>3. ASSUME NEW d \in Drivers, Starts(d)
        PROVE  \A o \in Ops :
                 \/ row'[o] = row[o]
                 \/ row'[o].identity = row[o].identity + 1
    BY <1>1, <2>3, StartEffect
  <2> QED
    BY <1>1, <2>t, <2>1, <2>2, <2>3, RowStep DEF DriverInv
<1>2. TypeOK /\ PassOK /\ DriverInv /\ [Next]_vars =>
        [\A o \in Ops :
           /\ row'[o].identity >= row[o].identity
           /\ row[o].state # "running" /\ row'[o].state = "running" =>
                row'[o].identity > row[o].identity]_vars
  BY <1>1
<1> QED
  BY <1>2, TypeCorrect, DriverInvAlways, PTL DEF Spec, IdentityNeverReused

-----------------------------------------------------------------------------
(* Who may take a lease off a row that stays active. *)

Kept(o) ==
  row'[o].state \in {"leased", "running"} => row'[o].lease = row[o].lease

(* A write to another row, or one that settles the row or keeps its lease. *)
LEMMA WriteKept ==
  ASSUME TypeOK, NEW o \in Ops, NEW x \in Ops, NEW doc, Write(x, doc),
         \/ x # o
         \/ doc.state \notin {"leased", "running"}
         \/ doc.lease = row[o].lease
  PROVE  Kept(o)
  BY DEF TypeOK, Write, Kept

(* The documents that settle a row or keep its lease. *)
LEMMA KeptDocs ==
  ASSUME TypeOK, NEW o \in Ops
  PROVE  /\ \A f : [row[o] EXCEPT !.flags = f].lease = row[o].lease
         /\ \A i : [row[o] EXCEPT !.identity = i].lease = row[o].lease
         /\ [row[o] EXCEPT !.state = "failed", !.lease = NoProc].state
              \notin {"leased", "running"}
         /\ \A s \in Outcomes, defer \in BOOLEAN, waited \in BOOLEAN :
              Finished(o, s, defer, waited).state \notin {"leased", "running"}
         /\ [AbsentRow EXCEPT !.state = "pending"].state
              \notin {"leased", "running"}
<1>1. row[o] \in RowDoc
  BY FlagSets
<1> QED
  BY <1>1 DEF RowDoc, Finished, Outcomes, AbsentRow

(* Only a refused stop, a reclaim and a relinquish do. *)
LEMMA LeaseKept ==
  ASSUME TypeOK, PassOK, [Next]_vars, NEW o \in Ops,
         \A d \in Drivers :
           /\ ~Acquires(d)
           /\ ~(ReclaimPut(d) /\ target[d] = o /\ seen[d] = o)
           /\ ~(Relinquish(d) /\ target[d] = o /\ row[o].lease = d[1]),
         \A r \in OperatedRuns : ~StopRefused(r, o)
  PROVE  Kept(o)
<1> USE DEF At
<1>0. UNCHANGED row => Kept(o)
  BY DEF Kept
<1>1. CASE ControlStep
  <2>1. PICK r \in OperatedRuns :
      \/ StopWrite(r) \/ StopList(r) \/ StopFinish(r) \/ StopReturn(r)
      \/ StopBreaks(r) \/ PauseRun(r) \/ UnpauseRun(r)
      \/ \E x \in Ops : StopRequest(r, x) \/ StopRefused(r, x)
      \/ \E disposition \in {"open", "ended"} : SettleRun(r, disposition)
    BY <1>1 DEF ControlStep
  <2>2. CASE StopFinish(r)
    <3>1. stopAsked[r] \in Ops /\ "cancelled" \in Outcomes
      BY <2>2, OperatedAssumption DEF StopFinish, TypeOK, Outcomes
    <3> QED
      BY <1>0, <2>2, <3>1, WriteKept, KeptDocs DEF StopFinish
  <2>3. ASSUME NEW x \in Ops, StopRequest(r, x) PROVE Kept(o)
    BY <2>3, WriteKept, KeptDocs DEF StopRequest
  <2>4. ASSUME NEW x \in Ops, StopRefused(r, x) PROVE Kept(o)
    BY <2>4, WriteKept DEF StopRefused
  <2> QED
    BY <1>0, <2>1, <2>2, <2>3, <2>4 DEF StopWrite, StopList, StopReturn,
       StopBreaks, PauseRun, UnpauseRun, SettleRun
<1>2. CASE PermitStep
  <2>1. UNCHANGED row
    BY <1>2 DEF PermitStep, AcquireVerification, ReleaseVerification, ToolExits,
       PermitLapses, ReleaseReviewSlot, ClaimLapses, ClaimReviewSlot, permitRest
  <2> QED
    BY <1>0, <2>1
<1>3. CASE EnvironmentStep
  <2>1. ASSUME NEW x \in Ops, NEW f, row' = [row EXCEPT ![x].flags = f]
        PROVE  Kept(o)
    <3>1. row \in [Ops -> RowDoc] /\ row[x] \in RowDoc
      BY DEF TypeOK
    <3> QED
      BY <2>1, <3>1 DEF RowDoc, Kept
  <2> QED
    BY <1>0, <1>3, <2>1
       DEF EnvironmentStep, Crash, LeaseLapses, RetryDue, BudgetElapses
<1>4. ASSUME NEW d \in Drivers,
             \/ DriverMoves(d) \/ DriverFails(d)
             \/ \E x \in Ops : Plan(d, x)
             \/ \E t \in Tools : ToolRequests(d, t)
      PROVE  Kept(o)
  <2>o. /\ pc[d] \in TargetPcs => target[d] \in Ops
        /\ pc[d] = "after" => view[d].ops[target[d]] \in Outcomes
        /\ pc[d] = "lag" => \A x \in todo[d] : view[d].ops[x] \in Outcomes
    BY DEF PassOK
  <2>1. ASSUME NEW x \in Ops, Plan(d, x) PROVE Kept(o)
    BY <1>0, <2>1, WriteKept, KeptDocs DEF Plan
  <2>2. ASSUME NEW x \in Ops, LagFinish(d, x) PROVE Kept(o)
    <3>1. view[d].ops[x] \in Outcomes
      BY <2>2, <2>o DEF LagFinish
    <3> QED
      BY <1>0, <2>2, <3>1, WriteKept, KeptDocs DEF LagFinish
  <2>3. CASE ReclaimPut(d)
    <3>1. target[d] \in Ops
      BY <2>3, <2>o DEF ReclaimPut, TargetPcs
    <3> QED
      BY <1>0, <2>3, <3>1, WriteKept DEF ReclaimPut, CompareAndSet
  <2>4. CASE ExpirePut(d)
    <3>1. target[d] \in Ops
      BY <2>4, <2>o DEF ExpirePut, TargetPcs
    <3> QED
      BY <1>0, <2>4, <3>1, WriteKept, KeptDocs DEF ExpirePut, CompareAndSet
  <2>5. CASE AcquireOperation(d)
    BY <1>0, <2>5 DEF AcquireOperation, Acquires
  <2>6. CASE FinishUnstarted(d)
    <3>1. target[d] \in Ops /\ "failed" \in Outcomes
      BY <2>6, <2>o DEF FinishUnstarted, TargetPcs, HoldingPcs, Outcomes
    <3> QED
      BY <1>0, <2>6, <3>1, WriteKept, KeptDocs DEF FinishUnstarted
  <2>7. CASE StartWithin(d)
    <3>1. CASE Starts(d)
      BY <3>1, StartEffect DEF Kept
    <3> QED
      BY <1>0, <2>7, <3>1 DEF StartWithin, Starts
  <2>8. ASSUME NEW i \in 0 .. MaxIdentity, ReserveAttemptIdentity(d, i) PROVE Kept(o)
    <3>1. target[d] \in Ops
      BY <2>8, <2>o DEF ReserveAttemptIdentity, TargetPcs, HoldingPcs
    <3> QED
      BY <1>0, <2>8, <3>1, WriteKept, KeptDocs DEF ReserveAttemptIdentity
  <2>9. ASSUME NEW defer \in BOOLEAN, Finish(d, defer) PROVE Kept(o)
    <3>1. target[d] \in Ops /\ view[d].ops[target[d]] \in Outcomes
      BY <2>9, <2>o DEF Finish, TargetPcs, HoldingPcs
    <3> QED
      BY <1>0, <2>9, <3>1, WriteKept, KeptDocs DEF Finish
  <2>10. ASSUME NEW refund \in BOOLEAN, RestoreAttempt(d, refund) PROVE Kept(o)
    <3>1. target[d] \in Ops
      BY <2>10, <2>o DEF RestoreAttempt, TargetPcs, HoldingPcs
    <3>2. row[target[d]] \in RowDoc
      BY <3>1, FlagSets
    <3>3. \A a, f : [row[target[d]] EXCEPT !.attempt = a, !.lease = NoProc,
                                           !.flags = f].state = row[target[d]].state
      BY <3>2 DEF RowDoc
    <3> QED
      BY <1>0, <2>10, <3>1, <3>3, WriteKept DEF RestoreAttempt
  <2>11. CASE Relinquish(d)
    <3>1. target[d] \in Ops
      BY <2>11, <2>o DEF Relinquish, TargetPcs, HoldingPcs
    <3> QED
      BY <1>0, <2>11, <3>1, WriteKept DEF Relinquish
  <2>12. CASE \/ Load(d) \/ CheckDrivers(d) \/ NothingWanted(d)
              \/ AttemptsExhausted(d) \/ BeginNext(d) \/ ScanCandidates(d)
              \/ NothingLeased(d) \/ JournalStale(d) \/ JournalBefore(d)
              \/ KeepAttempt(d) \/ DriverFails(d)
              \/ \E x \in Ops : ReclaimRead(d, x) \/ CandidateRead(d, x)
              \/ \E t \in Tools : ToolRequests(d, t)
              \/ \E outcome \in Outcomes : JournalAfter(d, outcome)
    <3>1. UNCHANGED row
      BY <2>12 DEF Load, CheckDrivers, NothingWanted, AttemptsExhausted, BeginNext,
         ScanCandidates, NothingLeased, JournalStale, JournalBefore, KeepAttempt,
         DriverFails, ReclaimRead, CandidateRead, ToolRequests,
         RequestVerification, permitRest, JournalAfter
    <3> QED
      BY <1>0, <3>1
  <2> QED
    BY <1>4, <2>1, <2>2, <2>3, <2>4, <2>5, <2>6, <2>7, <2>8, <2>9, <2>10, <2>11,
       <2>12 DEF DriverMoves
<1>5. CASE UNCHANGED vars
  BY <1>0, <1>5 DEF vars, storeVars
<1> QED
  BY <1>1, <1>2, <1>3, <1>4, <1>5 DEF Next, DriverStep

(* Taking over never hits a driver that is still driving, for any number of *)
(* processes: a row is reclaimed or acquired only at a revision at which no *)
(* living driver held it, and relinquished only by the driver itself.       *)
THEOREM LiveLeaseNeverStolenAlways == Spec => LiveLeaseNeverStolen
<1>1. ASSUME TypeOK, PassOK, DriverInv, [Next]_vars, NEW d \in Drivers,
             pc[d] \in DrivingPcs, pc'[d] \in DrivingPcs,
             Active(target[d]), row[target[d]].lease = d[1],
             row'[target[d]].state \in {"leased", "running"}
      PROVE  row'[target[d]].lease = d[1]
  <2> DEFINE o == target[d]
  <2>1. /\ o \in Ops /\ RunOf[o] = d[2] /\ d[1] \in alive
        /\ pc[d] \in HoldingPcs
    BY <1>1 DEF PassOK, DriverInv, OwnRun, Living, DrivingPcs, TargetPcs, HoldingPcs
  <2>2. d = <<d[1], d[2]>>
    BY DriversAssumption
  <2>3. Holds(d[1], o)
    BY <2>1, <2>2 DEF Holds
  <2>4. ASSUME NEW e \in Drivers, Acquires(e) PROVE row'[o].lease = d[1]
    <3>1. target[e] # o
      BY <1>1, <2>1, <2>4, AcquireEffect DEF DriverInv, Judged, JudgedBy
    <3> QED
      BY <1>1, <2>1, <2>4, <3>1, AcquireEffect
  <2>5. ASSUME NEW e \in Drivers
        PROVE  /\ ~(ReclaimPut(e) /\ target[e] = o /\ seen[e] = o)
               /\ ~(Relinquish(e) /\ target[e] = o /\ row[o].lease = e[1])
    <3>1. ~(ReclaimPut(e) /\ target[e] = o /\ seen[e] = o)
      BY <1>1, <2>1, <2>3 DEF DriverInv, Judged, JudgedBy, ReclaimPut, At
    <3>2. ASSUME Relinquish(e), target[e] = o, row[o].lease = e[1] PROVE FALSE
      <4>1. pc[e] = "exit" /\ e[2] = RunOf[o]
        BY <1>1, <3>2 DEF DriverInv, OwnRun, HoldingPcs, Relinquish, At
      <4>2. e = <<e[1], e[2]>>
        BY DriversAssumption
      <4> QED
        BY <1>1, <2>1, <2>2, <3>2, <4>1, <4>2 DEF DrivingPcs
    <3> QED
      BY <3>1, <3>2
  <2>6. ASSUME NEW r \in OperatedRuns, StopRefused(r, o) PROVE FALSE
    BY <1>1, <2>1, <2>6, SentinelsAssumption
       DEF StopRefused, Carries, CanAcquire, TypeOK
  <2>7. CASE \A e \in Drivers : ~Acquires(e)
    BY <1>1, <2>1, <2>5, <2>6, <2>7, LeaseKept DEF Kept
  <2> QED
    BY <2>4, <2>7
<1>2. TypeOK /\ PassOK /\ DriverInv /\ [Next]_vars =>
        [\A d \in Drivers :
           /\ pc[d] \in DrivingPcs /\ pc'[d] \in DrivingPcs
           /\ Active(target[d]) /\ row[target[d]].lease = d[1]
           /\ row'[target[d]].state \in {"leased", "running"}
           => row'[target[d]].lease = d[1]]_vars
  BY <1>1
<1> QED
  BY <1>2, TypeCorrect, DriverInvAlways, PTL DEF Spec, LiveLeaseNeverStolen

-----------------------------------------------------------------------------
(* A stop that returned. *)

(* The run document is cancelled before anything is listed; what became     *)
(* active before that is listed, and what is active while the list is       *)
(* worked off is still on it.                                               *)
StopInv ==
  \A r \in Runs :
    /\ stop[r] # "none" => runRow[r] = "cancelled"
    /\ stop[r] = "scan" =>
         \A o \in Ops : RunOf[o] = r /\ Active(o) => o \in stopTodo[r]
    /\ stop[r] = "done" => \A o \in Ops : RunOf[o] = r => ~Active(o)

(* Operations become active only by acquisition. *)
LEMMA ActiveStep ==
  ASSUME TypeOK, PassOK, PlannedRows, [Next]_vars, NEW o \in Ops, Active(o)'
  PROVE  Active(o) \/ \E d \in Drivers : Acquires(d) /\ target[d] = o
<1>1. CASE Calm
  BY <1>1 DEF Calm, CalmDoc, Active
<1>2. ASSUME NEW d \in Drivers, Acquires(d), target[d] # o PROVE Active(o)
  BY <1>2, AcquireEffect DEF Active
<1>3. ASSUME NEW d \in Drivers, Starts(d) PROVE Active(o)
  BY <1>3, StartEffect DEF Active
<1> QED
  BY <1>1, <1>2, <1>3, RowStep

(* No driver, permit or passing of time touches a stop, or a cancelled run  *)
(* document.                                                                *)
LEMMA StopUntouched ==
  ASSUME TypeOK, [Next]_vars, ~ControlStep
  PROVE  /\ UNCHANGED <<stop, stopTodo>>
         /\ \A r \in Runs : runRow[r] = "cancelled" => runRow'[r] = "cancelled"
<1> USE DEF rowRest, driverRest, driverVars, controlVars, permitRest, At
<1>1. ASSUME NEW d \in Drivers,
             \/ DriverMoves(d) \/ DriverFails(d)
             \/ \E o \in Ops : Plan(d, o)
             \/ \E t \in Tools : ToolRequests(d, t)
      PROVE  /\ UNCHANGED <<stop, stopTodo>>
             /\ UNCHANGED runRow \/ AttemptsExhausted(d)
  BY <1>1 DEF DriverMoves, Load, CheckDrivers, NothingWanted, AttemptsExhausted,
     BeginNext, ScanCandidates, NothingLeased, JournalStale, JournalBefore,
     KeepAttempt, DriverFails, ToolRequests, RequestVerification,
     JournalAfter, ReclaimPut, ExpirePut, AcquireOperation, FinishUnstarted,
     StartWithin, Relinquish, ReserveAttemptIdentity, Finish, RestoreAttempt,
     Plan, LagFinish, ReclaimRead, CandidateRead
<1>2. ASSUME NEW d \in Drivers, AttemptsExhausted(d), NEW r \in Runs,
             runRow[r] = "cancelled"
      PROVE  runRow'[r] = "cancelled"
  BY <1>2 DEF AttemptsExhausted, TypeOK
<1>3. CASE EnvironmentStep
  BY <1>3 DEF EnvironmentStep, Crash, LeaseLapses, RetryDue, BudgetElapses
<1>4. CASE PermitStep /\ UNCHANGED <<controlVars, driverVars>>
  BY <1>4 DEF PermitStep, AcquireVerification, ReleaseVerification, ToolExits,
     PermitLapses, ReleaseReviewSlot, ClaimLapses, ClaimReviewSlot
<1>5. CASE UNCHANGED vars
  BY <1>5 DEF vars, storeVars
<1> QED
  BY <1>1, <1>2, <1>3, <1>4, <1>5 DEF Next, DriverStep

(* Every step preserves the invariant. *)
LEMMA StopInvStep ==
  ASSUME TypeOK, PassOK, PlannedRows, StopInv, [Next]_vars
  PROVE  StopInv'
<1>1. CASE ~ControlStep
  <2> SUFFICES ASSUME NEW r \in Runs, stop[r] # "none"
               PROVE  /\ runRow'[r] = "cancelled"
                      /\ \A o \in Ops : RunOf[o] = r /\ Active(o)' => Active(o)
    BY <1>1, StopUntouched DEF StopInv
  <2>1. runRow[r] = "cancelled" /\ runRow'[r] = "cancelled"
    BY <1>1, StopUntouched DEF StopInv
  <2>2. ASSUME NEW o \in Ops, RunOf[o] = r, Active(o)' PROVE Active(o)
    <3>1. ASSUME NEW d \in Drivers, Acquires(d), target[d] = o PROVE FALSE
      BY <2>1, <2>2, <3>1 DEF Acquires, AcquireAllowed, Terminal
    <3> QED
      BY <2>2, <3>1, ActiveStep
  <2> QED
    BY <2>1, <2>2
<1>2. CASE ControlStep
  <2>a. \A o \in Ops : Active(o)' => Active(o)
    BY <1>2, ControlCalm DEF Calm, CalmDoc, Active
  <2>1. PICK q \in OperatedRuns :
      \/ StopWrite(q) \/ StopList(q) \/ StopFinish(q) \/ StopReturn(q)
      \/ StopBreaks(q) \/ PauseRun(q) \/ UnpauseRun(q)
      \/ \E o \in Ops : StopRequest(q, o) \/ StopRefused(q, o)
      \/ \E disposition \in {"open", "ended"} : SettleRun(q, disposition)
    BY <1>2 DEF ControlStep
  <2>q. q \in Runs
    BY OperatedAssumption
  <2>t. /\ stop \in [Runs -> StopStates] /\ stopTodo \in [Runs -> SUBSET Ops]
        /\ runRow \in [Runs -> RunStates]
        /\ stopAsked \in [Runs -> Ops \cup {NoOp}]
    BY DEF TypeOK
  <2>2. CASE StopWrite(q)
    BY <2>2, <2>a, <2>q, <2>t DEF StopWrite, StopInv
  <2>3. CASE StopList(q)
    BY <2>3, <2>a, <2>q, <2>t DEF StopList, StopInv
  <2>4. CASE StopFinish(q)
    <3>1. PICK o \in Ops : o = stopAsked[q]
      BY <2>4, <2>q, <2>t DEF StopFinish
    <3>2. row'[o].state \notin {"leased", "running"}
      <4>1. CASE Active(o)
        <5>1. PICK waited \in BOOLEAN :
                row' = [row EXCEPT ![o] = Finished(o, "cancelled", FALSE, waited)]
          BY <2>4, <3>1, <4>1 DEF StopFinish, Write
        <5>2. row'[o] = Finished(o, "cancelled", FALSE, waited)
          BY <5>1 DEF TypeOK
        <5> QED
          BY <5>2, KeptDocs DEF Outcomes
      <4>2. CASE ~Active(o)
        BY <2>4, <3>1, <4>2 DEF StopFinish, Active
      <4> QED
        BY <4>1, <4>2
    <3>3. /\ UNCHANGED <<stop, runRow>>
          /\ stopTodo' = [stopTodo EXCEPT ![q] = @ \ {o}]
      BY <2>4, <3>1 DEF StopFinish
    <3>4. ASSUME NEW r \in Runs, stop'[r] = "scan", NEW e \in Ops,
                 RunOf[e] = r, Active(e)'
          PROVE  e \in stopTodo'[r]
      <4>1. e \in stopTodo[r] /\ e # o
        BY <2>a, <3>2, <3>3, <3>4 DEF StopInv, Active
      <4> QED
        BY <2>t, <3>3, <4>1
    <3> QED
      BY <2>a, <3>3, <3>4 DEF StopInv
  <2>5. CASE StopReturn(q)
    BY <2>5, <2>a, <2>q, <2>t DEF StopReturn, StopInv
  <2>6. CASE StopBreaks(q)
    BY <2>6, <2>a, <2>q, <2>t DEF StopBreaks, StopInv
  <2>7. ASSUME NEW disposition \in {"open", "ended"}, SettleRun(q, disposition)
        PROVE  StopInv'
    BY <2>7, <2>a, <2>q, <2>t DEF SettleRun, StopInv, controlVars
  <2>8. CASE \/ PauseRun(q) \/ UnpauseRun(q)
             \/ \E o \in Ops : StopRequest(q, o) \/ StopRefused(q, o)
    <3>1. UNCHANGED <<stop, stopTodo, runRow>>
      BY <2>8 DEF PauseRun, UnpauseRun, StopRequest, StopRefused, controlVars
    <3> QED
      BY <3>1, <2>a DEF StopInv
  <2> QED
    BY <2>1, <2>2, <2>3, <2>4, <2>5, <2>6, <2>7, <2>8
<1> QED
  BY <1>1, <1>2

(* Once a stop has returned, no operation of the run is active and none     *)
(* becomes active, for any number of drivers and however often the stop     *)
(* itself broke off and was repeated.                                       *)
THEOREM StopReleasesRunAlways == Spec => []StopReleasesRun
<1>1. Init => StopInv
  BY DEF Init, StoreInit, ControlInit, StopInv
<1>2. StopInv => StopReleasesRun
  BY DEF StopInv, StopReleasesRun
<1>3. TypeOK /\ PassOK /\ DriverInv /\ StopInv /\ [Next]_vars => StopInv'
  BY StopInvStep DEF DriverInv
<1> QED
  BY <1>1, <1>2, <1>3, TypeCorrect, DriverInvAlways, PTL DEF Spec
=============================================================================
