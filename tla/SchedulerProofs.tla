--------------------------- MODULE SchedulerProofs ---------------------------
(***************************************************************************)
(* Theorems about Scheduler for every number of runs, operations,          *)
(* processes, tools and reviews, every ceiling and every attempt budget.   *)
(***************************************************************************)
EXTENDS Scheduler, FiniteSetTheorems, TLAPS

-----------------------------------------------------------------------------
(* The documents the steps write are documents. *)

(* Replacing a row's state, lease or flags leaves a document. *)
LEMMA StateDoc ==
  ASSUME NEW doc \in RowDoc, NEW s \in OperationStates,
         NEW l \in Procs \cup {NoProc}, NEW f \in SUBSET RowFlags
  PROVE  /\ [doc EXCEPT !.state = s, !.lease = l, !.flags = f] \in RowDoc
         /\ [doc EXCEPT !.state = s, !.lease = l] \in RowDoc
         /\ [doc EXCEPT !.lease = l] \in RowDoc
         /\ [doc EXCEPT !.flags = f] \in RowDoc
  BY DEF RowDoc

(* So does moving its counters. *)
LEMMA CountDoc ==
  ASSUME NEW doc \in RowDoc, NEW s \in OperationStates, NEW a \in Nat,
         NEW i \in Nat, NEW f \in SUBSET RowFlags
  PROVE  /\ [doc EXCEPT !.state = s, !.attempt = a, !.identity = i,
                        !.flags = f] \in RowDoc
         /\ [doc EXCEPT !.identity = i] \in RowDoc
         /\ [doc EXCEPT !.attempt = a, !.lease = NoProc, !.flags = f] \in RowDoc
  BY DEF RowDoc

(* What a well-typed row holds, and that its flags stay flags. *)
LEMMA FlagSets ==
  ASSUME TypeOK, NEW o \in Ops
  PROVE  /\ row[o] \in RowDoc
         /\ row[o].flags \in SUBSET RowFlags
         /\ row[o].state \in OperationStates
         /\ row[o].lease \in Procs \cup {NoProc}
         /\ row[o].attempt \in Nat /\ row[o].identity \in Nat
         /\ \A f : row[o].flags \ f \in SUBSET RowFlags
         /\ \A f \in SUBSET RowFlags : row[o].flags \cup f \in SUBSET RowFlags
         /\ {"cancel"} \in SUBSET RowFlags /\ {"lapsed"} \in SUBSET RowFlags
         /\ {"expired"} \in SUBSET RowFlags
  BY DEF TypeOK, RowDoc, RowFlags

(* The states an operation can end in are states of rows and of records. *)
LEMMA States ==
  /\ {"absent", "pending", "leased", "running", "succeeded",
      "failed", "cancelled"} = OperationStates
  /\ Outcomes \subseteq OperationStates /\ Outcomes \subseteq JournalStates
  /\ "open" \in JournalStates
  BY DEF OperationStates, Outcomes, JournalStates

(* What a pass remembers is a view. *)
LEMMA Views ==
  /\ Forgotten \in ViewDoc
  /\ \A o \in Ops, s \in JournalStates :
       /\ [Forgotten EXCEPT !.ops[o] = s] \in ViewDoc
       /\ [Forgotten EXCEPT !.ops[o] = s].ops[o] = s
  /\ \A o \in Ops \cup {NoOp} : [Forgotten EXCEPT !.planned = o] \in ViewDoc
<1>1. Forgotten \in ViewDoc
  BY States DEF Forgotten, ViewDoc
<1>2. ASSUME NEW o \in Ops, NEW s \in JournalStates
      PROVE  /\ [Forgotten EXCEPT !.ops[o] = s] \in ViewDoc
             /\ [Forgotten EXCEPT !.ops[o] = s].ops[o] = s
  BY <1>1 DEF ViewDoc
<1>3. ASSUME NEW o \in Ops \cup {NoOp}
      PROVE  [Forgotten EXCEPT !.planned = o] \in ViewDoc
  BY <1>1 DEF ViewDoc
<1> QED
  BY <1>1, <1>2, <1>3

(* What finishAt writes is a document. *)
LEMMA FinishedType ==
  ASSUME TypeOK, NEW o \in Ops, NEW state \in OperationStates,
         NEW defer \in BOOLEAN, NEW waited \in BOOLEAN
  PROVE  Finished(o, state, defer, waited) \in RowDoc
<1> DEFINE f == (row[o].flags \ ({"deferred", "active"} \cup
                   IF Flagged(o, "active") /\ waited THEN {"expired"} ELSE {}))
                \cup IF defer THEN {"deferred"} ELSE {}
<1>1. row[o] \in RowDoc
  BY FlagSets
<1>2. f \in SUBSET RowFlags
  BY <1>1 DEF RowDoc, RowFlags
<1> HIDE DEF f
<1>3. [row[o] EXCEPT !.state = state, !.lease = NoProc, !.flags = f] \in RowDoc
  BY <1>1, <1>2, StateDoc
<1> QED
  BY <1>3 DEF Finished, f

(* What StartWithin writes is a document. *)
LEMMA StartedType ==
  ASSUME TypeOK, NEW o \in Ops, NEW waited \in BOOLEAN
  PROVE  [row[o] EXCEPT
            !.state = "running", !.attempt = @ + 1, !.identity = @ + 1,
            !.flags = (@ \ IF Flagged(o, "active") /\ waited
                             THEN {"expired"} ELSE {}) \cup {"active"}] \in RowDoc
<1> DEFINE f == (row[o].flags \ IF Flagged(o, "active") /\ waited
                                  THEN {"expired"} ELSE {}) \cup {"active"}
<1>1. row[o] \in RowDoc
  BY FlagSets
<1>2. f \in SUBSET RowFlags
  BY <1>1 DEF RowDoc, RowFlags
<1>3. row[o].attempt + 1 \in Nat /\ row[o].identity + 1 \in Nat
  BY FlagSets
<1>4. "running" \in OperationStates
  BY States
<1> HIDE DEF f
<1>5. [row[o] EXCEPT !.state = "running", !.attempt = row[o].attempt + 1,
                     !.identity = row[o].identity + 1, !.flags = f] \in RowDoc
  BY <1>1, <1>2, <1>3, <1>4, CountDoc
<1> QED
  BY <1>5 DEF f

(* What RestoreAttempt writes is a document. *)
LEMMA RestoredType ==
  ASSUME TypeOK, NEW o \in Ops, NEW refund \in BOOLEAN
  PROVE  [row[o] EXCEPT
            !.attempt = IF @ > 0 THEN @ - 1 ELSE @,
            !.lease = NoProc,
            !.flags = @ \ ({"active"} \cup IF refund THEN {"expired"} ELSE {})]
              \in RowDoc
<1> DEFINE f == row[o].flags \ ({"active"} \cup IF refund THEN {"expired"} ELSE {})
           a == IF row[o].attempt > 0 THEN row[o].attempt - 1 ELSE row[o].attempt
<1>1. row[o] \in RowDoc /\ f \in SUBSET RowFlags /\ a \in Nat
  BY FlagSets
<1> HIDE DEF f, a
<1>2. [row[o] EXCEPT !.attempt = a, !.lease = NoProc, !.flags = f] \in RowDoc
  BY <1>1, CountDoc, States
<1> QED
  BY <1>2 DEF f, a

(* Every transition of a permit leaves a permit. *)
LEMMA PermitDocs ==
  ASSUME TypeOK, NEW t \in Tools
  PROVE  /\ [permit[t] EXCEPT !.state = "granted", !.flags = @ \ {"lapsed"}]
              \in PermitDoc
         /\ [permit[t] EXCEPT !.state = "released"] \in PermitDoc
         /\ [permit[t] EXCEPT !.flags = @ \ {"tool"}] \in PermitDoc
         /\ [permit[t] EXCEPT !.flags = @ \cup {"lapsed"}] \in PermitDoc
<1>1. permit[t] \in PermitDoc
  BY DEF TypeOK
<1>2. /\ permit[t].flags \ {"lapsed"} \in SUBSET PermitFlags
      /\ permit[t].flags \ {"tool"} \in SUBSET PermitFlags
      /\ permit[t].flags \cup {"lapsed"} \in SUBSET PermitFlags
  BY <1>1 DEF PermitDoc, PermitFlags
<1>3. ASSUME NEW f \in SUBSET PermitFlags
      PROVE  /\ [permit[t] EXCEPT !.state = "granted", !.flags = f] \in PermitDoc
             /\ [permit[t] EXCEPT !.flags = f] \in PermitDoc
  BY <1>1 DEF PermitDoc
<1>4. [permit[t] EXCEPT !.state = "released"] \in PermitDoc
  BY <1>1 DEF PermitDoc
<1> QED
  BY <1>2, <1>3, <1>4

(* Reclaiming permits leaves permits. *)
LEMMA ReclaimedType ==
  ASSUME TypeOK, NEW gone \in SUBSET Tools
  PROVE  Reclaimed(gone) \in [Tools -> PermitDoc]
  BY PermitDocs DEF TypeOK, Reclaimed

(* Writing a document keeps the rows and the readers' marks well typed. *)
LEMMA WriteType ==
  ASSUME TypeOK, NEW o \in Ops, NEW doc \in RowDoc, Write(o, doc)
  PROVE  /\ row' \in [Ops -> RowDoc]
         /\ seen' \in [Drivers -> Ops \cup {NoOp}]
  BY DEF TypeOK, Write

(* So does a compare-and-set, won or lost. *)
LEMMA CompareAndSetType ==
  ASSUME TypeOK, NEW d \in Drivers, NEW o \in Ops, NEW doc \in RowDoc,
         CompareAndSet(d, o, doc)
  PROVE  /\ row' \in [Ops -> RowDoc]
         /\ seen' \in [Drivers -> Ops \cup {NoOp}]
  BY WriteType DEF TypeOK, CompareAndSet

-----------------------------------------------------------------------------
(* A driver that handles an operation handles a real one, and what it is   *)
(* about to write into a row is an outcome.                                *)
TargetPcs == {"reclaimPut", "expirePut", "acquire"} \cup HoldingPcs
PassOK ==
  \A d \in Drivers :
    /\ pc[d] \in TargetPcs => target[d] \in Ops
    /\ pc[d] = "after" => view[d].ops[target[d]] \in Outcomes
    /\ pc[d] = "lag" => \A o \in todo[d] : view[d].ops[o] \in Outcomes

(* The empty store is well typed. *)
LEMMA InitType == Init => TypeOK /\ PassOK
<1> SUFFICES ASSUME Init PROVE TypeOK /\ PassOK
  OBVIOUS
<1>1. /\ AbsentRow \in RowDoc /\ NoPermit \in PermitDoc /\ NoClaim \in ClaimDoc
      /\ Forgotten \in ViewDoc /\ "idle" \in Pcs
  BY Views, States DEF AbsentRow, RowDoc, OperationStates, NoPermit, PermitDoc,
     NoClaim, ClaimDoc, Pcs
<1>2. TypeOK
  BY <1>1, States DEF Init, StoreInit, ControlInit, TypeOK, RunStates, StopStates
<1>3. PassOK
  BY DEF Init, PassOK, TargetPcs, HoldingPcs
<1> QED
  BY <1>2, <1>3

(* An operator's step keeps the types. *)
LEMMA ControlType ==
  ASSUME TypeOK, PassOK, ControlStep, UNCHANGED driverVars
  PROVE  TypeOK' /\ PassOK'
<1>0. PassOK'
  BY DEF PassOK, driverVars
<1>1. PICK r \in OperatedRuns :
    \/ StopWrite(r) \/ StopList(r) \/ StopFinish(r) \/ StopReturn(r)
    \/ StopBreaks(r) \/ PauseRun(r) \/ UnpauseRun(r)
    \/ \E o \in Ops : StopRequest(r, o) \/ StopRefused(r, o)
    \/ \E disposition \in {"open", "ended"} : SettleRun(r, disposition)
  BY DEF ControlStep
<1>r. r \in Runs
  BY OperatedAssumption
<1>d. UNCHANGED <<pc, target, todo, view>>
  BY DEF driverVars
<1>2. CASE StopWrite(r)
  <2>1. runRow' \in [Runs -> RunStates] /\ stop' \in [Runs -> StopStates]
    BY <1>2, <1>r DEF StopWrite, TypeOK, StopStates, RunStates
  <2> QED
    BY <1>2, <1>0, <1>d, <2>1 DEF StopWrite, TypeOK, controlRest
<1>3. CASE StopList(r)
  <2>1. stop' \in [Runs -> StopStates] /\ stopTodo' \in [Runs -> SUBSET Ops]
    BY <1>3, <1>r DEF StopList, TypeOK, StopStates
  <2> QED
    BY <1>3, <1>0, <1>d, <2>1 DEF StopList, TypeOK, controlRest
<1>4. CASE StopFinish(r)
  <2>1. stopAsked[r] \in Ops
    BY <1>4, <1>r DEF StopFinish, TypeOK
  <2>2. row' \in [Ops -> RowDoc] /\ seen' \in [Drivers -> Ops \cup {NoOp}]
    <3>1. CASE Active(stopAsked[r])
      <4>1. PICK waited \in BOOLEAN :
              Write(stopAsked[r], Finished(stopAsked[r], "cancelled", FALSE, waited))
        BY <1>4, <3>1 DEF StopFinish
      <4> QED
        BY <4>1, <2>1, WriteType, FinishedType, States
    <3>2. CASE ~Active(stopAsked[r])
      BY <1>4, <3>2 DEF StopFinish, TypeOK
    <3> QED
      BY <3>1, <3>2
  <2>3. /\ stopTodo' \in [Runs -> SUBSET Ops]
        /\ stopAsked' \in [Runs -> Ops \cup {NoOp}]
    BY <1>4, <1>r DEF StopFinish, TypeOK
  <2> QED
    BY <1>4, <1>0, <1>d, <2>2, <2>3 DEF StopFinish, TypeOK, controlRest
<1>5. CASE StopReturn(r)
  <2>1. stop' \in [Runs -> StopStates]
    BY <1>5, <1>r DEF StopReturn, TypeOK, StopStates
  <2> QED
    BY <1>5, <1>0, <1>d, <2>1 DEF StopReturn, TypeOK, controlRest
<1>6. CASE StopBreaks(r)
  <2>1. /\ stop' \in [Runs -> StopStates]
        /\ stopTodo' \in [Runs -> SUBSET Ops]
        /\ stopAsked' \in [Runs -> Ops \cup {NoOp}]
    BY <1>6, <1>r DEF StopBreaks, TypeOK, StopStates
  <2> QED
    BY <1>6, <1>0, <1>d, <2>1 DEF StopBreaks, TypeOK, controlRest
<1>7. CASE PauseRun(r)
  <2>1. paused' \subseteq Runs
    BY <1>7, <1>r DEF PauseRun, TypeOK
  <2> QED
    BY <1>7, <1>0, <1>d, <2>1 DEF PauseRun, TypeOK, controlRest, controlVars
<1>8. CASE UnpauseRun(r)
  <2>1. paused' \subseteq Runs
    BY <1>8, <1>r DEF UnpauseRun, TypeOK
  <2> QED
    BY <1>8, <1>0, <1>d, <2>1 DEF UnpauseRun, TypeOK, controlRest, controlVars
<1>9. ASSUME NEW o \in Ops, StopRequest(r, o) PROVE TypeOK'
  <2>1. [row[o] EXCEPT !.flags = @ \cup {"cancel"}] \in RowDoc
    BY FlagSets, StateDoc, States
  <2>2. row' \in [Ops -> RowDoc] /\ seen' \in [Drivers -> Ops \cup {NoOp}]
    BY <1>9, <2>1, WriteType DEF StopRequest
  <2> QED
    BY <1>9, <1>r, <1>d, <2>2 DEF StopRequest, TypeOK, controlRest
<1>10. ASSUME NEW o \in Ops, StopRefused(r, o) PROVE TypeOK'
  <2>1. [row[o] EXCEPT !.lease = NoProc] \in RowDoc
    BY FlagSets, StateDoc, States
  <2>2. row' \in [Ops -> RowDoc] /\ seen' \in [Drivers -> Ops \cup {NoOp}]
    BY <1>10, <2>1, WriteType DEF StopRefused
  <2> QED
    BY <1>10, <1>r, <1>d, <2>2 DEF StopRefused, TypeOK, controlRest, controlVars
<1>11. ASSUME NEW disposition \in {"open", "ended"}, SettleRun(r, disposition)
       PROVE  TypeOK'
  BY <1>11, <1>r, <1>d DEF SettleRun, TypeOK, RunStates, controlRest, controlVars
<1> QED
  BY <1>0, <1>1, <1>2, <1>3, <1>4, <1>5, <1>6, <1>7, <1>8, <1>9, <1>10, <1>11

(* A step of a permit or a claim keeps the types. *)
LEMMA PermitType ==
  ASSUME TypeOK, PassOK, PermitStep, UNCHANGED <<controlVars, driverVars>>
  PROVE  TypeOK' /\ PassOK'
<1>0. PassOK'
  BY DEF PassOK, driverVars
<1> USE DEF permitRest, controlVars, driverVars
<1>1. ASSUME NEW t \in Tools, AcquireVerification(t) PROVE TypeOK'
  <2>1. PICK gone \in SUBSET (ReclaimablePermits \ {t}) :
          permit' = [Reclaimed(gone) EXCEPT ![t] = [permit[t] EXCEPT
                       !.state = "granted", !.flags = @ \ {"lapsed"}]]
    BY <1>1 DEF AcquireVerification
  <2>2. Reclaimed(gone) \in [Tools -> PermitDoc]
    BY ReclaimedType DEF ReclaimablePermits
  <2>3. permit' \in [Tools -> PermitDoc]
    BY <2>1, <2>2, PermitDocs
  <2> QED
    BY <1>1, <2>3 DEF AcquireVerification, TypeOK
<1>2. ASSUME NEW t \in Tools, ReleaseVerification(t) PROVE TypeOK'
  BY <1>2, PermitDocs DEF ReleaseVerification, TypeOK
<1>3. ASSUME NEW t \in Tools, ToolExits(t) PROVE TypeOK'
  BY <1>3, PermitDocs DEF ToolExits, TypeOK
<1>4. ASSUME NEW t \in Tools, PermitLapses(t) PROVE TypeOK'
  BY <1>4, PermitDocs DEF PermitLapses, TypeOK
<1>5. ASSUME NEW c \in Reviews, ReleaseReviewSlot(c) PROVE TypeOK'
  BY <1>5 DEF ReleaseReviewSlot, TypeOK, ClaimDoc, NoClaim
<1>6. ASSUME NEW c \in Reviews, ClaimLapses(c) PROVE TypeOK'
  BY <1>6 DEF ClaimLapses, TypeOK, ClaimDoc
<1>7. ASSUME NEW c \in Reviews, NEW p \in Procs, NEW r \in Runs,
             ClaimReviewSlot(p, c, r)
      PROVE  TypeOK'
  BY <1>7 DEF ClaimReviewSlot, TypeOK, ClaimDoc, NoClaim
<1> QED
  BY <1>0, <1>1, <1>2, <1>3, <1>4, <1>5, <1>6, <1>7 DEF PermitStep

(* Every step of one driver. *)
LEMMA DriverType ==
  ASSUME TypeOK, PassOK, NEW d \in Drivers,
         \/ DriverMoves(d) \/ DriverFails(d)
         \/ \E o \in Ops : Plan(d, o)
         \/ \E t \in Tools : ToolRequests(d, t)
  PROVE  TypeOK' /\ PassOK'
<1> USE DEF rowRest, driverRest, driverVars, controlVars, At, Go, Handle, Skip,
            ReadRow, Remember, Pcs, PassPcs, NextPcs, HoldingPcs, TargetPcs
<1>d. d[1] \in Procs /\ d[2] \in Runs
  BY DriversAssumption
<1>o. /\ pc[d] \in TargetPcs => target[d] \in Ops
      /\ pc[d] = "after" => view[d].ops[target[d]] \in Outcomes
      /\ pc[d] = "lag" => \A o \in todo[d] : view[d].ops[o] \in Outcomes
  BY DEF PassOK
<1>w. ASSUME NEW o \in Ops, NEW doc \in RowDoc,
             Write(o, doc) \/ CompareAndSet(d, o, doc) \/ UNCHANGED <<row, seen>>
      PROVE  row' \in [Ops -> RowDoc] /\ seen' \in [Drivers -> Ops \cup {NoOp}]
  BY <1>w, WriteType, CompareAndSetType DEF TypeOK
<1>v. ASSUME NEW v \in ViewDoc, Remember(d, v)
      PROVE  view' \in [Drivers -> ViewDoc] /\ view'[d] = v
             /\ \A e \in Drivers \ {d} : view'[e] = view[e]
  BY <1>v DEF TypeOK
<1>f. Remember(d, Forgotten) =>
        view' \in [Drivers -> ViewDoc] /\ view'[d] = Forgotten
        /\ \A e \in Drivers \ {d} : view'[e] = view[e]
  BY <1>v, Views
<1>1. CASE Load(d)
  <2> DEFINE v == [paused |-> paused \cap {d[2]},
        ops |-> [o \in Ops |->
          IF o \in {e \in Ops : RunOf[e] = d[2] /\ Active(e) /\ journal[e] \in Outcomes}
            THEN journal[o] ELSE "open"],
        planned |-> NoOp]
  <2>1. v \in ViewDoc
    BY <1>d, States DEF TypeOK, ViewDoc
  <2>2. Remember(d, v)
    BY <1>1 DEF Load
  <2>3. view' \in [Drivers -> ViewDoc] /\ view'[d] = v
        /\ \A e \in Drivers \ {d} : view'[e] = view[e]
    BY <2>1, <2>2, <1>v
  <2>4. /\ todo' \in [Drivers -> SUBSET Ops]
        /\ \A o \in todo'[d] : v.ops[o] \in Outcomes
        /\ \A e \in Drivers \ {d} : todo'[e] = todo[e]
    BY <1>1 DEF Load, TypeOK
  <2> HIDE DEF v
  <2> QED
    BY <1>1, <2>3, <2>4 DEF Load, TypeOK, PassOK
<1>2. ASSUME NEW o \in Ops, LagFinish(d, o)
      PROVE  TypeOK' /\ PassOK'
  <2>1. o \in todo[d] /\ view[d].ops[o] \in OperationStates
    BY <1>2, <1>o, States DEF LagFinish
  <2>2. row' \in [Ops -> RowDoc] /\ seen' \in [Drivers -> Ops \cup {NoOp}]
    BY <1>2, <2>1, <1>w, FinishedType, FlagSets DEF LagFinish
  <2>3. CASE Active(o)
    <3>1. /\ todo' \in [Drivers -> SUBSET Ops]
          /\ \A e \in Drivers : todo'[e] \subseteq todo[e]
          /\ UNCHANGED <<pc, target, view>>
      BY <1>2, <2>3 DEF LagFinish, TypeOK
    <3>2. PassOK'
      BY <3>1 DEF PassOK
    <3> QED
      BY <1>2, <2>2, <3>1, <3>2 DEF LagFinish, TypeOK
  <2>4. CASE ~Active(o)
    <3>1. view' \in [Drivers -> ViewDoc] /\ \A e \in Drivers \ {d} : view'[e] = view[e]
      BY <1>2, <2>4, <1>f DEF LagFinish
    <3> QED
      BY <1>2, <2>2, <2>4, <3>1 DEF LagFinish, TypeOK, PassOK
  <2> QED
    BY <2>3, <2>4
<1>3. CASE CheckDrivers(d)
  <2>v. view' \in [Drivers -> ViewDoc] /\ \A e \in Drivers \ {d} : view'[e] = view[e]
    BY <1>3, <1>f DEF CheckDrivers
  <2> QED
    BY <1>3, <2>v DEF CheckDrivers, TypeOK, PassOK
<1>4. CASE NothingWanted(d)
  BY <1>4, <1>o, <1>d DEF NothingWanted, TypeOK, PassOK
<1>5. ASSUME NEW o \in Ops, Plan(d, o)
      PROVE  TypeOK' /\ PassOK'
  <2>1. [AbsentRow EXCEPT !.state = "pending"] \in RowDoc
    BY DEF AbsentRow, RowDoc, OperationStates
  <2>2. row' \in [Ops -> RowDoc] /\ seen' \in [Drivers -> Ops \cup {NoOp}]
    BY <1>5, <2>1, <1>w DEF Plan
  <2>v. view' \in [Drivers -> ViewDoc] /\ \A e \in Drivers \ {d} : view'[e] = view[e]
    BY <1>5, <1>v, Views DEF Plan
  <2> QED
    BY <1>5, <2>2, <2>v DEF Plan, TypeOK, PassOK
<1>6. CASE AttemptsExhausted(d)
  BY <1>6, <1>d DEF AttemptsExhausted, TypeOK, PassOK, RunStates
<1>7. CASE BeginNext(d)
  <2>1. permit' \in [Tools -> PermitDoc]
    BY <1>7, ReclaimedType DEF BeginNext, ReclaimablePermits
  <2>2. claim' \in [Reviews -> ClaimDoc]
    BY <1>7 DEF BeginNext, TypeOK, ClaimDoc, NoClaim
  <2>v. view' \in [Drivers -> ViewDoc] /\ \A e \in Drivers \ {d} : view'[e] = view[e]
    BY <1>7, <1>f DEF BeginNext, TypeOK
  <2>3. /\ todo' \in [Drivers -> SUBSET Ops]
        /\ \A e \in Drivers \ {d} : todo'[e] = todo[e]
        /\ pc' \in [Drivers -> Pcs] /\ pc'[d] \in {"idle", "reclaim"}
        /\ \A e \in Drivers \ {d} : pc'[e] = pc[e]
    BY <1>7 DEF BeginNext, TypeOK
  <2>4. UNCHANGED <<row, journal, runRow, paused, seen, alive, stop, stopTodo,
                    stopAsked, target>>
    BY <1>7 DEF BeginNext
  <2>5. TypeOK'
    BY <2>1, <2>2, <2>v, <2>3, <2>4 DEF TypeOK
  <2>6. PassOK'
    BY <2>v, <2>3, <2>4 DEF PassOK
  <2> QED
    BY <2>5, <2>6
<1>8. ASSUME NEW o \in Ops, ReclaimRead(d, o)
      PROVE  TypeOK' /\ PassOK'
  BY <1>8, <1>o, <1>d DEF ReclaimRead, TypeOK, PassOK
<1>9. CASE ReclaimPut(d)
  <2>1. target[d] \in Ops
    BY <1>9, <1>o DEF ReclaimPut
  <2>2. row' \in [Ops -> RowDoc] /\ seen' \in [Drivers -> Ops \cup {NoOp}]
    BY <1>9, <2>1, <1>w, FlagSets, StateDoc, States DEF ReclaimPut
  <2> QED
    BY <1>9, <2>1, <2>2 DEF ReclaimPut, TypeOK, PassOK
<1>10. CASE ScanCandidates(d)
  BY <1>10, <1>o, <1>d DEF ScanCandidates, TypeOK, PassOK
<1>11. ASSUME NEW o \in Ops, CandidateRead(d, o)
      PROVE  TypeOK' /\ PassOK'
  BY <1>11, <1>o, <1>d DEF CandidateRead, TypeOK, PassOK
<1>12. CASE ExpirePut(d)
  <2>1. target[d] \in Ops
    BY <1>12, <1>o DEF ExpirePut
  <2>2. row' \in [Ops -> RowDoc] /\ seen' \in [Drivers -> Ops \cup {NoOp}]
    BY <1>12, <2>1, <1>w, FlagSets, StateDoc, States DEF ExpirePut
  <2> QED
    BY <1>12, <2>1, <2>2 DEF ExpirePut, TypeOK, PassOK
<1>13. CASE AcquireOperation(d)
  <2>1. target[d] \in Ops
    BY <1>13, <1>o DEF AcquireOperation
  <2>d. [row[target[d]] EXCEPT !.state = "leased", !.lease = d[1],
                               !.flags = @ \ {"lapsed"}] \in RowDoc
    <3>1. /\ "leased" \in OperationStates /\ d[1] \in Procs \cup {NoProc}
          /\ row[target[d]] \in RowDoc
          /\ row[target[d]].flags \ {"lapsed"} \in SUBSET RowFlags
      BY <1>d, <2>1, FlagSets, States
    <3> QED
      BY <3>1, StateDoc
  <2>2. row' \in [Ops -> RowDoc] /\ seen' \in [Drivers -> Ops \cup {NoOp}]
    BY <1>13, <2>1, <1>w, FlagSets, <2>d DEF AcquireOperation
  <2> QED
    BY <1>13, <2>1, <2>2 DEF AcquireOperation, TypeOK, PassOK
<1>14. CASE NothingLeased(d)
  <2>v. view' \in [Drivers -> ViewDoc] /\ \A e \in Drivers \ {d} : view'[e] = view[e]
    BY <1>14, <1>f DEF NothingLeased
  <2> QED
    BY <1>14, <2>v DEF NothingLeased, TypeOK, PassOK
<1>15. CASE FinishUnstarted(d)
  <2>1. target[d] \in Ops
    BY <1>15, <1>o DEF FinishUnstarted
  <2>2. row' \in [Ops -> RowDoc] /\ seen' \in [Drivers -> Ops \cup {NoOp}]
    BY <1>15, <2>1, <1>w, FlagSets, FinishedType, States DEF FinishUnstarted
  <2>v. view' \in [Drivers -> ViewDoc] /\ \A e \in Drivers \ {d} : view'[e] = view[e]
    BY <1>15, <1>f DEF FinishUnstarted
  <2> QED
    BY <1>15, <2>1, <2>2, <2>v DEF FinishUnstarted, TypeOK, PassOK
<1>16. CASE JournalStale(d)
  <2>1. target[d] \in Ops
    BY <1>16, <1>o DEF JournalStale
  <2>2. view' \in [Drivers -> ViewDoc] /\ view'[d].ops[target[d]] \in Outcomes
        /\ \A e \in Drivers \ {d} : view'[e] = view[e]
    <3>1. "cancelled" \in Outcomes /\ "cancelled" \in JournalStates
      BY States DEF Outcomes
    <3>2. Remember(d, [Forgotten EXCEPT !.ops[target[d]] = "cancelled"])
      BY <1>16 DEF JournalStale
    <3> QED
      BY <2>1, <3>1, <3>2, <1>v, Views
  <2>3. journal' \in [Ops -> JournalStates]
    BY <1>16, <2>1, States DEF JournalStale, TypeOK, Outcomes
  <2> QED
    BY <1>16, <2>1, <2>2, <2>3 DEF JournalStale, TypeOK, PassOK
<1>17. CASE StartWithin(d)
  <2>1. target[d] \in Ops
    BY <1>17, <1>o DEF StartWithin
  <2>2. row' \in [Ops -> RowDoc] /\ seen' \in [Drivers -> Ops \cup {NoOp}]
    BY <1>17, <2>1, <1>w, FlagSets, StartedType DEF StartWithin
  <2>v. view' \in [Drivers -> ViewDoc] /\ \A e \in Drivers \ {d} : view'[e] = view[e]
    BY <1>17, <1>f DEF StartWithin
  <2> QED
    <3>1. /\ pc' \in [Drivers -> Pcs] /\ pc'[d] \in {"started", "exit"}
          /\ \A e \in Drivers \ {d} : pc'[e] = pc[e]
      BY <1>17 DEF StartWithin, TypeOK
    <3>2. UNCHANGED <<target, todo>>
      BY <1>17 DEF StartWithin
    <3>3. PassOK'
      BY <2>1, <2>v, <3>1, <3>2 DEF PassOK
    <3> QED
      BY <1>17, <2>2, <2>v, <3>1, <3>3 DEF StartWithin, TypeOK
<1>18. CASE JournalBefore(d)
  <2>1. journal' \in [Ops -> JournalStates]
    BY <1>18, <1>o, States DEF JournalBefore, TypeOK
  <2> QED
    BY <1>18, <1>o, <2>1 DEF JournalBefore, TypeOK, PassOK
<1>19. ASSUME NEW i \in 0 .. MaxIdentity, ReserveAttemptIdentity(d, i)
      PROVE  TypeOK' /\ PassOK'
  <2>1. target[d] \in Ops
    BY <1>19, <1>o DEF ReserveAttemptIdentity
  <2>2. row' \in [Ops -> RowDoc] /\ seen' \in [Drivers -> Ops \cup {NoOp}]
    <3>1. i \in Nat /\ row[target[d]] \in RowDoc
      BY <2>1, FlagSets, IdentityBound
    <3>2. [row[target[d]] EXCEPT !.identity = i] \in RowDoc
      BY <3>1, FlagSets, CountDoc, States
    <3> QED
      BY <1>19, <2>1, <1>w, <3>1, <3>2 DEF ReserveAttemptIdentity
  <2> QED
    BY <1>19, <2>1, <2>2 DEF ReserveAttemptIdentity, TypeOK, PassOK
<1>20. ASSUME NEW t \in Tools, ToolRequests(d, t)
      PROVE  TypeOK' /\ PassOK'
  <2>1. target[d] \in Ops
    BY <1>20, <1>o DEF ToolRequests
  <2>2. [state |-> "waiting", op |-> target[d], att |-> row[target[d]].identity,
         ctl |-> d[1], flags |-> {"tool"}] \in PermitDoc
    BY <1>d, <2>1, FlagSets DEF PermitDoc, PermitFlags
  <2> QED
    BY <1>20, <2>2 DEF ToolRequests, RequestVerification, permitRest, TypeOK, PassOK
<1>21. ASSUME NEW outcome \in Outcomes, JournalAfter(d, outcome)
      PROVE  TypeOK' /\ PassOK'
  <2>1. target[d] \in Ops
    BY <1>21, <1>o DEF JournalAfter
  <2>2. view' \in [Drivers -> ViewDoc] /\ view'[d].ops[target[d]] \in Outcomes
        /\ \A e \in Drivers \ {d} : view'[e] = view[e]
    <3>1. outcome \in Outcomes /\ outcome \in JournalStates
      BY States DEF Outcomes
    <3>2. Remember(d, [Forgotten EXCEPT !.ops[target[d]] = outcome])
      BY <1>21 DEF JournalAfter
    <3> QED
      BY <2>1, <3>1, <3>2, <1>v, Views
  <2>3. journal' \in [Ops -> JournalStates]
    BY <1>21, <2>1, States DEF JournalAfter, TypeOK, Outcomes
  <2> QED
    BY <1>21, <2>1, <2>2, <2>3 DEF JournalAfter, TypeOK, PassOK
<1>22. ASSUME NEW defer \in BOOLEAN, Finish(d, defer)
      PROVE  TypeOK' /\ PassOK'
  <2>1. target[d] \in Ops
    BY <1>22, <1>o DEF Finish
  <2>s. view[d].ops[target[d]] \in OperationStates
    BY <1>22, <1>o, States DEF Finish
  <2>2. row' \in [Ops -> RowDoc] /\ seen' \in [Drivers -> Ops \cup {NoOp}]
    BY <1>22, <2>1, <1>w, FlagSets, <2>s, FinishedType DEF Finish
  <2>v. view' \in [Drivers -> ViewDoc] /\ \A e \in Drivers \ {d} : view'[e] = view[e]
    BY <1>22, <1>f DEF Finish
  <2> QED
    BY <1>22, <2>1, <2>2, <2>v DEF Finish, TypeOK, PassOK
<1>23. ASSUME NEW refund \in BOOLEAN, RestoreAttempt(d, refund)
      PROVE  TypeOK' /\ PassOK'
  <2>1. target[d] \in Ops
    BY <1>23, <1>o DEF RestoreAttempt
  <2>2. row' \in [Ops -> RowDoc] /\ seen' \in [Drivers -> Ops \cup {NoOp}]
    BY <1>23, <2>1, <1>w, FlagSets, RestoredType DEF RestoreAttempt
  <2> QED
    BY <1>23, <2>1, <2>2 DEF RestoreAttempt, TypeOK, PassOK
<1>24. CASE KeepAttempt(d)
  BY <1>24, <1>o, <1>d DEF KeepAttempt, TypeOK, PassOK
<1>25. CASE DriverFails(d)
  <2>v. view' \in [Drivers -> ViewDoc] /\ \A e \in Drivers \ {d} : view'[e] = view[e]
    BY <1>25, <1>f DEF DriverFails
  <2> QED
    BY <1>25, <1>o, <2>v DEF DriverFails, TypeOK, PassOK
<1>26. CASE Relinquish(d)
  <2>1. target[d] \in Ops
    BY <1>26, <1>o DEF Relinquish
  <2>2. row' \in [Ops -> RowDoc] /\ seen' \in [Drivers -> Ops \cup {NoOp}]
    BY <1>26, <2>1, <1>w, FlagSets, StateDoc, States DEF Relinquish
  <2> QED
    BY <1>26, <2>1, <2>2 DEF Relinquish, TypeOK, PassOK
<1> QED
  BY <1>1, <1>2, <1>3, <1>4, <1>5, <1>6, <1>7, <1>8, <1>9, <1>10, <1>11,
     <1>12, <1>13, <1>14, <1>15, <1>16, <1>17, <1>18, <1>19, <1>20, <1>21,
     <1>22, <1>23, <1>24, <1>25, <1>26 DEF DriverMoves

(* Crashes and the passing of time keep the types. *)
LEMMA EnvironmentType ==
  ASSUME TypeOK, PassOK, EnvironmentStep
  PROVE  TypeOK' /\ PassOK'
<1> USE DEF driverRest, driverVars, controlVars
<1>1. ASSUME NEW p \in Procs, Crash(p) PROVE TypeOK' /\ PassOK'
  BY <1>1, Views DEF Crash, TypeOK, PassOK, TargetPcs, HoldingPcs, Pcs
<1>2. ASSUME NEW o \in Ops, NEW f \in SUBSET RowFlags
      PROVE  [row EXCEPT ![o].flags = f] \in [Ops -> RowDoc]
  <2>1. [row[o] EXCEPT !.flags = f] \in RowDoc
    BY FlagSets, StateDoc, States
  <2> QED
    BY <2>1 DEF TypeOK
<1>3. ASSUME NEW o \in Ops, LeaseLapses(o) PROVE TypeOK' /\ PassOK'
  <2>1. row' \in [Ops -> RowDoc]
    <3>1. row[o].flags \cup {"lapsed"} \in SUBSET RowFlags
      BY FlagSets
    <3>2. row' = [row EXCEPT ![o].flags = row[o].flags \cup {"lapsed"}]
      BY <1>3 DEF LeaseLapses
    <3> QED
      BY <1>2, <3>1, <3>2
  <2> QED
    BY <1>3, <2>1 DEF LeaseLapses, TypeOK, PassOK
<1>4. ASSUME NEW o \in Ops, RetryDue(o) PROVE TypeOK' /\ PassOK'
  <2>1. row' \in [Ops -> RowDoc]
    <3>1. row[o].flags \ {"deferred"} \in SUBSET RowFlags
      BY FlagSets
    <3>2. row' = [row EXCEPT ![o].flags = row[o].flags \ {"deferred"}]
      BY <1>4 DEF RetryDue
    <3> QED
      BY <1>2, <3>1, <3>2
  <2> QED
    BY <1>4, <2>1 DEF RetryDue, TypeOK, PassOK
<1>5. ASSUME NEW o \in Ops, BudgetElapses(o) PROVE TypeOK' /\ PassOK'
  <2>1. row' \in [Ops -> RowDoc]
    <3>1. row[o].flags \cup {"expired"} \in SUBSET RowFlags
      BY FlagSets
    <3>2. row' = [row EXCEPT ![o].flags = row[o].flags \cup {"expired"}]
      BY <1>5 DEF BudgetElapses
    <3> QED
      BY <1>2, <3>1, <3>2
  <2> QED
    BY <1>5, <2>1 DEF BudgetElapses, TypeOK, PassOK
<1> QED
  BY <1>1, <1>3, <1>4, <1>5 DEF EnvironmentStep

(* Every step keeps the types. *)
LEMMA NextType ==
  ASSUME TypeOK, PassOK, [Next]_vars
  PROVE  TypeOK' /\ PassOK'
<1>1. CASE UNCHANGED vars
  BY <1>1 DEF vars, storeVars, controlVars, driverVars, TypeOK, PassOK
<1> QED
  BY <1>1, ControlType, PermitType, DriverType, EnvironmentType DEF Next, DriverStep

(* Every reachable state is well typed, for any number of processes, runs  *)
(* and operations: no step of the scheduler, of a stop or of a permit       *)
(* writes a document its readers cannot interpret.                          *)
THEOREM TypeCorrect == Spec => [](TypeOK /\ PassOK)
  BY InitType, NextType, PTL DEF Spec

-----------------------------------------------------------------------------
(* Leases appear only by acquisition: every other step leaves each operation *)
(* carrying a lease only if it carried one before.                           *)
Shrinks == \A o \in Ops : Carries(o)' => Carries(o)

(* A write grants no lease if the row is settled or unleased by it, or had one. *)
LEMMA WriteShrinks ==
  ASSUME TypeOK, NEW o \in Ops, NEW doc, Write(o, doc),
         \/ doc.state \notin {"leased", "running"}
         \/ doc.lease = NoProc
         \/ Carries(o)
  PROVE  Shrinks
  BY DEF TypeOK, Write, Shrinks, Carries, Active

(* The fields of a rewritten document. *)
LEMMA Fields ==
  ASSUME NEW doc \in RowDoc, NEW s, NEW f, NEW a, NEW i
  PROVE  /\ [doc EXCEPT !.state = s, !.lease = NoProc, !.flags = f].lease = NoProc
         /\ [doc EXCEPT !.state = s, !.lease = NoProc].lease = NoProc
         /\ [doc EXCEPT !.lease = NoProc].lease = NoProc
         /\ [doc EXCEPT !.attempt = a, !.lease = NoProc, !.flags = f].lease = NoProc
         /\ [doc EXCEPT !.flags = f].state = doc.state
         /\ [doc EXCEPT !.flags = f].lease = doc.lease
         /\ [doc EXCEPT !.identity = i].state = doc.state
         /\ [doc EXCEPT !.identity = i].lease = doc.lease
  BY DEF RowDoc

(* A finished row has no lease. *)
LEMMA FinishedFields ==
  ASSUME TypeOK, NEW o \in Ops, NEW state, NEW defer, NEW waited
  PROVE  Finished(o, state, defer, waited).lease = NoProc
<1>1. row[o] \in RowDoc
  BY FlagSets
<1> QED
  BY <1>1, Fields DEF Finished

(* An operator grants no lease. *)
LEMMA ControlShrinks ==
  ASSUME TypeOK, ControlStep
  PROVE  Shrinks
<1>0. UNCHANGED row => Shrinks
  BY DEF Shrinks, Carries, Active
<1>1. PICK r \in OperatedRuns :
    \/ StopWrite(r) \/ StopList(r) \/ StopFinish(r) \/ StopReturn(r)
    \/ StopBreaks(r) \/ PauseRun(r) \/ UnpauseRun(r)
    \/ \E o \in Ops : StopRequest(r, o) \/ StopRefused(r, o)
    \/ \E disposition \in {"open", "ended"} : SettleRun(r, disposition)
  BY DEF ControlStep
<1>2. CASE StopFinish(r)
  <2>1. stopAsked[r] \in Ops
    BY <1>2, OperatedAssumption DEF StopFinish, TypeOK
  <2> QED
    BY <1>0, <1>2, <2>1, WriteShrinks, FinishedFields DEF StopFinish
<1>3. ASSUME NEW o \in Ops, StopRequest(r, o) PROVE Shrinks
  <2>1. [row[o] EXCEPT !.flags = @ \cup {"cancel"}].state = row[o].state
        /\ [row[o] EXCEPT !.flags = @ \cup {"cancel"}].lease = row[o].lease
    BY FlagSets, Fields
  <2> QED
    BY <1>3, <2>1, WriteShrinks DEF StopRequest, Carries, Active
<1>4. ASSUME NEW o \in Ops, StopRefused(r, o) PROVE Shrinks
  <2>1. [row[o] EXCEPT !.lease = NoProc].lease = NoProc
    BY FlagSets, Fields
  <2> QED
    BY <1>4, <2>1, WriteShrinks DEF StopRefused
<1> QED
  BY <1>0, <1>1, <1>2, <1>3, <1>4 DEF StopWrite, StopList, StopReturn, StopBreaks,
     PauseRun, UnpauseRun, SettleRun

(* A permit grants no lease. *)
LEMMA PermitShrinks ==
  ASSUME PermitStep
  PROVE  Shrinks
<1>1. UNCHANGED row
  BY DEF PermitStep, AcquireVerification, ReleaseVerification, ToolExits,
     PermitLapses, ReleaseReviewSlot, ClaimLapses, ClaimReviewSlot, permitRest
<1> QED
  BY <1>1 DEF Shrinks, Carries, Active

(* Time and crashes grant no lease. *)
LEMMA EnvironmentShrinks ==
  ASSUME TypeOK, EnvironmentStep
  PROVE  Shrinks
<1>1. ASSUME NEW o \in Ops, NEW f, row' = [row EXCEPT ![o].flags = f]
      PROVE  Shrinks
  <2>1. row[o] \in RowDoc /\ row \in [Ops -> RowDoc]
    BY DEF TypeOK
  <2>2. row'[o].state = row[o].state /\ row'[o].lease = row[o].lease
    BY <1>1, <2>1, Fields
  <2>3. \A e \in Ops \ {o} : row'[e] = row[e]
    BY <1>1, <2>1
  <2> QED
    BY <2>2, <2>3 DEF Shrinks, Carries, Active
<1>2. UNCHANGED row => Shrinks
  BY DEF Shrinks, Carries, Active
<1> QED
  BY <1>1, <1>2 DEF EnvironmentStep, Crash, LeaseLapses, RetryDue, BudgetElapses

(* Of a driver's steps only a successful acquisition grants a lease. *)
LEMMA DriverShrinks ==
  ASSUME TypeOK, PassOK, NEW d \in Drivers,
         \/ DriverMoves(d) \/ DriverFails(d)
         \/ \E o \in Ops : Plan(d, o)
         \/ \E t \in Tools : ToolRequests(d, t),
         ~(AcquireOperation(d) /\ AcquireAllowed(d, target[d]))
  PROVE  Shrinks
<1> USE DEF At
<1>0. UNCHANGED row => Shrinks
  BY DEF Shrinks, Carries, Active
<1>o. pc[d] \in TargetPcs => target[d] \in Ops
  BY DEF PassOK
<1>1. ASSUME NEW o \in Ops, Plan(d, o) PROVE Shrinks
  <2>1. [AbsentRow EXCEPT !.state = "pending"].state = "pending"
    BY DEF AbsentRow
  <2> QED
    BY <1>0, <1>1, <2>1, WriteShrinks DEF Plan
<1>2. ASSUME NEW o \in Ops, LagFinish(d, o) PROVE Shrinks
  BY <1>0, <1>2, WriteShrinks, FinishedFields DEF LagFinish
<1>3. ASSUME NEW o \in Ops, NEW doc, doc.lease = NoProc, CompareAndSet(d, o, doc)
      PROVE  Shrinks
  BY <1>0, <1>3, WriteShrinks DEF CompareAndSet
<1>4. CASE ReclaimPut(d)
  <2>1. target[d] \in Ops
    BY <1>4, <1>o DEF ReclaimPut, TargetPcs
  <2>2. [row[target[d]] EXCEPT !.lease = NoProc].lease = NoProc
    BY <2>1, FlagSets, Fields
  <2> QED
    BY <1>3, <1>4, <2>1, <2>2 DEF ReclaimPut
<1>5. CASE ExpirePut(d)
  <2>1. target[d] \in Ops
    BY <1>5, <1>o DEF ExpirePut, TargetPcs
  <2>2. [row[target[d]] EXCEPT !.state = "failed", !.lease = NoProc].lease = NoProc
    BY <2>1, FlagSets, Fields
  <2> QED
    BY <1>3, <1>5, <2>1, <2>2 DEF ExpirePut
<1>6. CASE AcquireOperation(d)
  BY <1>0, <1>6 DEF AcquireOperation
<1>7. CASE FinishUnstarted(d)
  <2>1. target[d] \in Ops
    BY <1>7, <1>o DEF FinishUnstarted, TargetPcs, HoldingPcs
  <2> QED
    BY <1>0, <1>7, <2>1, WriteShrinks, FinishedFields DEF FinishUnstarted
<1>8. CASE StartWithin(d)
  <2>1. target[d] \in Ops
    BY <1>8, <1>o DEF StartWithin, TargetPcs, HoldingPcs
  <2>2. d[1] # NoProc
    BY DriversAssumption, SentinelsAssumption
  <2>3. CASE row[target[d]].state = "leased" /\ row[target[d]].lease = d[1]
    <3>1. Carries(target[d])
      BY <2>2, <2>3 DEF Carries, Active
    <3> QED
      BY <1>8, <2>1, <2>3, <3>1, WriteShrinks DEF StartWithin
  <2> QED
    BY <1>0, <1>8, <2>3 DEF StartWithin
<1>9. ASSUME NEW i \in 0 .. MaxIdentity, ReserveAttemptIdentity(d, i) PROVE Shrinks
  <2>1. target[d] \in Ops
    BY <1>9, <1>o DEF ReserveAttemptIdentity, TargetPcs, HoldingPcs
  <2>2. [row[target[d]] EXCEPT !.identity = i].state = row[target[d]].state
        /\ [row[target[d]] EXCEPT !.identity = i].lease = row[target[d]].lease
    BY <2>1, FlagSets, Fields
  <2> QED
    BY <1>0, <1>9, <2>1, <2>2, WriteShrinks
       DEF ReserveAttemptIdentity, Carries, Active
<1>10. ASSUME NEW defer \in BOOLEAN, Finish(d, defer) PROVE Shrinks
  <2>1. target[d] \in Ops
    BY <1>10, <1>o DEF Finish, TargetPcs, HoldingPcs
  <2> QED
    BY <1>0, <1>10, <2>1, WriteShrinks, FinishedFields DEF Finish
<1>11. ASSUME NEW refund \in BOOLEAN, RestoreAttempt(d, refund) PROVE Shrinks
  <2>1. target[d] \in Ops
    BY <1>11, <1>o DEF RestoreAttempt, TargetPcs, HoldingPcs
  <2>2. row[target[d]] \in RowDoc
    BY <2>1, FlagSets
  <2> DEFINE o == target[d]
             a == IF row[o].attempt > 0 THEN row[o].attempt - 1
                                        ELSE row[o].attempt
             f == row[o].flags \ ({"active"} \cup
                                  IF refund THEN {"expired"} ELSE {})
             doc == [row[o] EXCEPT !.attempt = a, !.lease = NoProc, !.flags = f]
  <2>3. Write(o, doc) \/ UNCHANGED row
    BY <1>11 DEF RestoreAttempt
  <2> HIDE DEF a, f
  <2>4. doc.lease = NoProc
    BY <2>2, Fields
  <2> HIDE DEF doc
  <2> QED
    BY <1>0, <2>1, <2>3, <2>4, WriteShrinks
<1>12. CASE Relinquish(d)
  <2>1. target[d] \in Ops
    BY <1>12, <1>o DEF Relinquish, TargetPcs, HoldingPcs
  <2>2. [row[target[d]] EXCEPT !.lease = NoProc].lease = NoProc
    BY <2>1, FlagSets, Fields
  <2> QED
    BY <1>0, <1>12, <2>1, <2>2, WriteShrinks DEF Relinquish
<1>13. ASSUME \/ Load(d) \/ CheckDrivers(d) \/ NothingWanted(d)
              \/ AttemptsExhausted(d) \/ BeginNext(d) \/ ScanCandidates(d)
              \/ NothingLeased(d) \/ JournalStale(d) \/ JournalBefore(d)
              \/ KeepAttempt(d) \/ DriverFails(d)
              \/ \E o \in Ops : ReclaimRead(d, o) \/ CandidateRead(d, o)
              \/ \E t \in Tools : ToolRequests(d, t)
              \/ \E outcome \in Outcomes : JournalAfter(d, outcome)
       PROVE  Shrinks
  <2>1. UNCHANGED row
    BY <1>13 DEF Load, CheckDrivers, NothingWanted, AttemptsExhausted, BeginNext,
       ScanCandidates, NothingLeased, JournalStale, JournalBefore, KeepAttempt,
       DriverFails, ReclaimRead, CandidateRead, ToolRequests,
       RequestVerification, permitRest, JournalAfter
  <2> QED
    BY <1>0, <2>1
<1> QED
  BY <1>1, <1>2, <1>4, <1>5, <1>6, <1>7, <1>8, <1>9, <1>10, <1>11, <1>12, <1>13
     DEF DriverMoves

-----------------------------------------------------------------------------
(* One lease per run. *)

(* Every step preserves the invariant. *)
LEMMA OneLeaseStep ==
  ASSUME TypeOK, PassOK, OneLeasePerRun, [Next]_vars
  PROVE  OneLeasePerRun'
<1>1. Shrinks => OneLeasePerRun'
  BY DEF Shrinks, OneLeasePerRun
<1>2. ASSUME NEW d \in Drivers, AcquireOperation(d), AcquireAllowed(d, target[d])
      PROVE  OneLeasePerRun'
  <2>1. target[d] \in Ops
    BY <1>2 DEF AcquireOperation, PassOK, TargetPcs, At
  <2>2. \A o \in Ops \ {target[d]} : row'[o] = row[o]
    BY <1>2, <2>1 DEF AcquireOperation, Write, TypeOK
  <2>3. \A o \in Ops \ {target[d]} :
          RunOf[o] = RunOf[target[d]] => ~Carries(o)'
    BY <1>2, <2>1, <2>2 DEF AcquireAllowed, Carries, Active
  <2> QED
    BY <2>1, <2>2, <2>3 DEF OneLeasePerRun, Carries, Active
<1>3. CASE UNCHANGED vars
  BY <1>3 DEF vars, storeVars, OneLeasePerRun, Carries, Active
<1> QED
  BY <1>1, <1>2, <1>3, ControlShrinks, PermitShrinks, EnvironmentShrinks,
     DriverShrinks DEF Next, DriverStep

(* "A run holds at most one active operation" is a durable fact for any      *)
(* number of processes and operations and whatever crashes: two operations   *)
(* of a run never carry a lease together, because leases appear only in      *)
(* AcquireOperation, whose statement re-reads the run's other rows.          *)
THEOREM OneLeasePerRunAlways == Spec => []OneLeasePerRun
<1>1. Init => OneLeasePerRun
  BY DEF Init, StoreInit, OneLeasePerRun, Carries, Active, AbsentRow
<1> QED
  BY <1>1, InitType, NextType, OneLeaseStep, PTL DEF Spec

=============================================================================
