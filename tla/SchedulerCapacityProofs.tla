----------------------- MODULE SchedulerCapacityProofs -----------------------
(***************************************************************************)
(* The fence that granted permits put around a run, and the ceilings that  *)
(* operations, permits and reviews share, for every number of runs,        *)
(* operations, processes, tools and reviews and for every ceiling.         *)
(***************************************************************************)
EXTENDS SchedulerSafetyProofs

-----------------------------------------------------------------------------
(* What a step does to the permits and claims. *)

(* A permit is asked for once, belongs to the same attempt ever after, and  *)
(* is granted only in AcquireVerification.                                  *)
PermitMoved(t) ==
  \/ /\ permit'[t].op = permit[t].op /\ permit'[t].att = permit[t].att
     /\ permit'[t].ctl = permit[t].ctl
     /\ permit[t].state = "none" => permit'[t].state = "none"
     /\ permit'[t].state = "granted" =>
          permit[t].state = "granted" \/ AcquireVerification(t)
  \/ permit'[t].state = "waiting" /\ permit'[t].op \in Ops

(* A permit that was asked for names an operation. *)
PermitsNameOps == \A t \in Tools : permit[t].state # "none" => permit[t].op \in Ops

(* The only steps that take up capacity. *)
Grants == \E t \in Tools : AcquireVerification(t)
Claims == \E p \in Procs, c \in Reviews, r \in Runs : ClaimReviewSlot(p, c, r)

(* Any other step leaves claims where they were, or gives them up. *)
ClaimsKept ==
  \A c \in Reviews : claim'[c].owner # NoProc =>
    claim[c].owner # NoProc /\ claim'[c].run = claim[c].run

(* Leaving the permits alone, or reclaiming some. *)
LEMMA SamePermits ==
  ASSUME UNCHANGED permit
  PROVE  \A t \in Tools : PermitMoved(t)
  BY DEF PermitMoved

(* Reclaiming only releases. *)
LEMMA ReclaimedPermits ==
  ASSUME TypeOK, NEW gone \in SUBSET ReclaimablePermits, NEW t \in Tools
  PROVE  /\ Reclaimed(gone)[t].op = permit[t].op
         /\ Reclaimed(gone)[t].att = permit[t].att
         /\ Reclaimed(gone)[t].ctl = permit[t].ctl
         /\ Reclaimed(gone)[t].state = "none" <=> permit[t].state = "none"
         /\ Reclaimed(gone)[t].state = "granted" => permit[t].state = "granted"
<1>1. permit[t] \in PermitDoc
  BY DEF TypeOK
<1>2. t \in gone => permit[t].state \in {"waiting", "granted"}
  BY DEF ReclaimablePermits
<1> QED
  BY <1>1, <1>2 DEF Reclaimed, PermitDoc

(* Every transition of a permit. *)
LEMMA PermitTransitions ==
  ASSUME TypeOK, PermitStep
  PROVE  \A t \in Tools : PermitMoved(t)
<1>t. permit \in [Tools -> PermitDoc] /\ \A t \in Tools : permit[t] \in PermitDoc
  BY DEF TypeOK
<1>1. ASSUME NEW t \in Tools, AcquireVerification(t)
      PROVE  \A u \in Tools : PermitMoved(u)
  <2>1. PICK gone \in SUBSET (ReclaimablePermits \ {t}) :
          /\ permit[t].state = "waiting"
          /\ permit' = [Reclaimed(gone) EXCEPT ![t] = [permit[t] EXCEPT
                         !.state = "granted", !.flags = @ \ {"lapsed"}]]
    BY <1>1 DEF AcquireVerification
  <2>2. permit'[t] = [permit[t] EXCEPT !.state = "granted", !.flags = @ \ {"lapsed"}]
    BY <2>1 DEF Reclaimed
  <2>3. \A u \in Tools \ {t} : permit'[u] = Reclaimed(gone)[u]
    BY <2>1 DEF Reclaimed
  <2>4. PermitMoved(t)
    <3>1. /\ permit'[t].op = permit[t].op /\ permit'[t].att = permit[t].att
          /\ permit'[t].ctl = permit[t].ctl
      BY <1>t, <2>2 DEF PermitDoc
    <3> QED
      BY <1>1, <2>1, <3>1 DEF PermitMoved
  <2>5. ASSUME NEW u \in Tools \ {t} PROVE PermitMoved(u)
    <3>1. gone \in SUBSET ReclaimablePermits
      OBVIOUS
    <3> QED
      BY <2>3, <3>1, ReclaimedPermits DEF PermitMoved
  <2> QED
    BY <2>4, <2>5
<1>2. ASSUME NEW t \in Tools, ReleaseVerification(t)
      PROVE  \A u \in Tools : PermitMoved(u)
  BY <1>2, <1>t DEF ReleaseVerification, PermitMoved, PermitDoc
<1>3. ASSUME NEW t \in Tools, ToolExits(t) \/ PermitLapses(t)
      PROVE  \A u \in Tools : PermitMoved(u)
  <2>1. PICK f : permit' = [permit EXCEPT ![t].flags = f]
    BY <1>3 DEF ToolExits, PermitLapses
  <2> QED
    BY <2>1, <1>t DEF PermitMoved, PermitDoc
<1>4. ASSUME NEW c \in Reviews,
             \/ ReleaseReviewSlot(c) \/ ClaimLapses(c)
             \/ \E p \in Procs, r \in Runs : ClaimReviewSlot(p, c, r)
      PROVE  \A u \in Tools : PermitMoved(u)
  BY <1>4, SamePermits DEF ReleaseReviewSlot, ClaimLapses, ClaimReviewSlot
<1> QED
  BY <1>1, <1>2, <1>3, <1>4 DEF PermitStep

(* The steps of a driver that touch permits or claims. *)
LEMMA DriverPermits ==
  ASSUME TypeOK, PassOK, NEW d \in Drivers,
         \/ DriverMoves(d) \/ DriverFails(d)
         \/ \E o \in Ops : Plan(d, o)
         \/ \E t \in Tools : ToolRequests(d, t)
  PROVE  /\ \A t \in Tools : PermitMoved(t)
         /\ ClaimsKept
<1> USE DEF rowRest, driverRest, At
<1>t. /\ permit \in [Tools -> PermitDoc] /\ \A t \in Tools : permit[t] \in PermitDoc
      /\ claim \in [Reviews -> ClaimDoc]
  BY DEF TypeOK
<1>c. UNCHANGED claim => ClaimsKept
  BY DEF ClaimsKept
<1>1. CASE BeginNext(d)
  <2>1. PICK gone \in SUBSET ReclaimablePermits : permit' = Reclaimed(gone)
    BY <1>1 DEF BeginNext
  <2>2. \A t \in Tools : PermitMoved(t)
    BY <2>1, ReclaimedPermits DEF PermitMoved
  <2>3. ClaimsKept
    BY <1>1, <1>t DEF BeginNext, ClaimsKept, NoClaim
  <2> QED
    BY <2>2, <2>3
<1>2. ASSUME NEW t \in Tools, ToolRequests(d, t)
      PROVE  /\ \A u \in Tools : PermitMoved(u)
             /\ ClaimsKept
  <2>1. target[d] \in Ops
    BY <1>2 DEF ToolRequests, PassOK, TargetPcs, HoldingPcs
  <2>2. /\ permit'[t].state = "waiting" /\ permit'[t].op = target[d]
        /\ \A u \in Tools \ {t} : permit'[u] = permit[u]
        /\ UNCHANGED claim
    BY <1>2, <1>t DEF ToolRequests, RequestVerification
  <2> QED
    BY <2>1, <2>2, <1>c DEF PermitMoved
<1>3. CASE ~BeginNext(d) /\ ~\E t \in Tools : ToolRequests(d, t)
  <2>1. UNCHANGED <<permit, claim>>
    BY <1>3 DEF DriverMoves, Load, CheckDrivers, NothingWanted, AttemptsExhausted,
       ScanCandidates, NothingLeased, JournalStale, JournalBefore,
       KeepAttempt, DriverFails, JournalAfter, ReclaimPut, ExpirePut,
       AcquireOperation, FinishUnstarted, StartWithin, Relinquish,
       ReserveAttemptIdentity, Finish, RestoreAttempt, Plan, LagFinish,
       ReclaimRead, CandidateRead
  <2> QED
    BY <2>1, <1>c, SamePermits
<1> QED
  BY <1>1, <1>2, <1>3

(* Every step moves permits as described. *)
LEMMA PermitMotion ==
  ASSUME TypeOK, PassOK, [Next]_vars
  PROVE  \A t \in Tools : PermitMoved(t)
<1>1. CASE ControlStep \/ EnvironmentStep \/ UNCHANGED vars
  <2>1. UNCHANGED permit
    BY <1>1 DEF ControlStep, controlRest, StopWrite, StopList, StopFinish,
       StopReturn, StopBreaks, PauseRun, UnpauseRun, StopRequest, StopRefused,
       SettleRun, EnvironmentStep, Crash, LeaseLapses, RetryDue, BudgetElapses,
       driverRest, vars, storeVars
  <2> QED
    BY <2>1, SamePermits
<1> QED
  BY <1>1, PermitTransitions, DriverPermits DEF Next, DriverStep

(* Every step but a new claim keeps or gives up claims. *)
LEMMA ClaimMotion ==
  ASSUME TypeOK, PassOK, [Next]_vars, ~Claims
  PROVE  ClaimsKept
<1>t. claim \in [Reviews -> ClaimDoc] /\ \A c \in Reviews : claim[c] \in ClaimDoc
  BY DEF TypeOK
<1>c. UNCHANGED claim => ClaimsKept
  BY DEF ClaimsKept
<1>1. CASE ControlStep \/ EnvironmentStep \/ UNCHANGED vars
  <2>1. UNCHANGED claim
    BY <1>1 DEF ControlStep, controlRest, StopWrite, StopList, StopFinish,
       StopReturn, StopBreaks, PauseRun, UnpauseRun, StopRequest, StopRefused,
       SettleRun, EnvironmentStep, Crash, LeaseLapses, RetryDue, BudgetElapses,
       driverRest, vars, storeVars
  <2> QED
    BY <2>1, <1>c
<1>2. ASSUME NEW t \in Tools, \/ AcquireVerification(t) \/ ReleaseVerification(t)
                              \/ ToolExits(t) \/ PermitLapses(t)
      PROVE  ClaimsKept
  BY <1>2, <1>c DEF AcquireVerification, ReleaseVerification, ToolExits, PermitLapses
<1>3. ASSUME NEW c \in Reviews, ReleaseReviewSlot(c) PROVE ClaimsKept
  BY <1>3, <1>t DEF ReleaseReviewSlot, ClaimsKept, NoClaim
<1>4. ASSUME NEW c \in Reviews, ClaimLapses(c) PROVE ClaimsKept
  BY <1>4, <1>t DEF ClaimLapses, ClaimsKept, ClaimDoc, Claimed
<1> QED
  BY <1>1, <1>2, <1>3, <1>4, DriverPermits DEF Next, DriverStep, PermitStep, Claims

-----------------------------------------------------------------------------
(* The fence. *)

(* Permits keep naming operations. *)
LEMMA PermitsNameOpsStep ==
  ASSUME TypeOK, PassOK, PermitsNameOps, [Next]_vars
  PROVE  PermitsNameOps'
  BY PermitMotion DEF PermitsNameOps, PermitMoved

(* Every step preserves the fence. *)
LEMMA FenceStep ==
  ASSUME TypeOK, PassOK, PlannedRows, OneLeasePerRun, PermitsNameOps,
         PermitFencesRun, [Next]_vars
  PROVE  PermitFencesRun'
<1> SUFFICES ASSUME NEW t \in Tools, permit'[t].state = "granted", NEW o \in Ops,
                    Carries(o)', RunOf[o] = RunOf[permit'[t].op]
             PROVE  /\ o = permit'[t].op /\ row'[o].state = "running"
                    /\ row'[o].lease = permit'[t].ctl
                    /\ row'[o].identity >= permit'[t].att
  BY DEF PermitFencesRun, Granted
<1>m. /\ permit'[t].op = permit[t].op /\ permit'[t].att = permit[t].att
      /\ permit'[t].ctl = permit[t].ctl
      /\ permit[t].state = "granted" \/ AcquireVerification(t)
  BY PermitMotion DEF PermitMoved
<1>t. permit[t].att \in Nat /\ row[o].identity \in Nat /\ row'[o].identity \in Nat
  BY FlagSets, NextType DEF TypeOK, PermitDoc, RowDoc
<1>1. CASE AcquireVerification(t)
  <2>1. /\ permit[t].state = "waiting" /\ permit[t].ctl \in alive /\ UNCHANGED row
        /\ ParentRuns(permit[t].op, permit[t].ctl, permit[t].att)
    BY <1>1 DEF AcquireVerification, permitRest
  <2>2. permit[t].op \in Ops /\ permit[t].ctl # NoProc
    BY <2>1, SentinelsAssumption DEF PermitsNameOps, TypeOK
  <2>3. Carries(permit[t].op) /\ Carries(o)
    BY <2>1, <2>2 DEF ParentRuns, Carries, Active
  <2>4. o = permit[t].op
    BY <1>m, <2>2, <2>3 DEF OneLeasePerRun
  <2> QED
    BY <1>m, <1>t, <2>1, <2>4 DEF ParentRuns
<1>2. CASE permit[t].state = "granted"
  <2>1. ASSUME Carries(o), row'[o].state = row[o].state,
               row'[o].lease = row[o].lease, row'[o].identity >= row[o].identity
        PROVE  /\ o = permit'[t].op /\ row'[o].state = "running"
               /\ row'[o].lease = permit'[t].ctl
               /\ row'[o].identity >= permit'[t].att
    BY <1>2, <1>m, <1>t, <2>1 DEF PermitFencesRun, Granted
  <2>2. CASE Calm
    BY <2>1, <2>2 DEF Calm, CalmDoc, Carries, Active
  <2>3. ASSUME NEW d \in Drivers, Acquires(d) PROVE target[d] # o
    BY <1>2, <1>m, <2>3 DEF Acquires, AcquireAllowed, Granted
  <2>4. ASSUME NEW d \in Drivers, Acquires(d), target[d] # o
        PROVE  row'[o] = row[o]
    BY <2>4, AcquireEffect
  <2>5. ASSUME NEW d \in Drivers, Starts(d) PROVE target[d] # o
    <3>1. ASSUME target[d] = o PROVE FALSE
      <4>1. d[1] # NoProc
        BY DriversAssumption, SentinelsAssumption
      <4>2. Carries(o) /\ row[o].state = "leased"
        BY <2>5, <3>1, <4>1, StartEffect DEF Carries, Active
      <4> QED
        BY <1>2, <1>m, <4>2 DEF PermitFencesRun, Granted
    <3> QED
      BY <3>1
  <2>6. ASSUME NEW d \in Drivers, Starts(d), target[d] # o
        PROVE  row'[o] = row[o]
    BY <2>6, StartEffect
  <2>7. row'[o] = row[o] => Carries(o) /\ row'[o].identity >= row[o].identity
    BY <1>t DEF Carries, Active
  <2> QED
    BY <2>1, <2>2, <2>3, <2>4, <2>5, <2>6, <2>7, RowStep
<1> QED
  BY <1>m, <1>1, <1>2

(* While a tool runs under a granted permit, no lease in its run belongs to *)
(* anything but the attempt that asked for it, however many processes die,  *)
(* reclaim and acquire: acquisition re-reads the granted permits, and an    *)
(* attempt cannot be started again without being acquired.                  *)
THEOREM PermitFencesRunAlways == Spec => []PermitFencesRun
<1>1. Init => PermitsNameOps /\ PermitFencesRun
  BY DEF Init, StoreInit, PermitsNameOps, PermitFencesRun, Granted, NoPermit
<1>2. TypeOK /\ PassOK /\ DriverInv /\ OneLeasePerRun
      /\ PermitsNameOps /\ PermitFencesRun /\ [Next]_vars
        => PermitsNameOps' /\ PermitFencesRun'
  BY PermitsNameOpsStep, FenceStep DEF DriverInv
<1> QED
  BY <1>1, <1>2, TypeCorrect, DriverInvAlways, OneLeasePerRunAlways, PTL DEF Spec

-----------------------------------------------------------------------------
(* The ceilings. *)

(* A part of a finite set is finite and not larger. *)
LEMMA Part ==
  ASSUME NEW S, NEW T, S \subseteq T, IsFiniteSet(T)
  PROVE  /\ IsFiniteSet(S) /\ Cardinality(S) \in Nat /\ Cardinality(T) \in Nat
         /\ Cardinality(S) <= Cardinality(T)
  BY FS_Subset, FS_CardinalityType

(* One more element makes it larger by one at most. *)
LEMMA OneMore ==
  ASSUME NEW S, NEW T, NEW x, S \subseteq T \cup {x}, IsFiniteSet(T)
  PROVE  /\ IsFiniteSet(S) /\ Cardinality(S) \in Nat /\ Cardinality(T) \in Nat
         /\ Cardinality(S) <= Cardinality(T) + 1
<1>1. IsFiniteSet(T \cup {x}) /\ Cardinality(T) \in Nat
      /\ Cardinality(T \cup {x}) <= Cardinality(T) + 1
  BY FS_AddElement, FS_CardinalityType
<1> QED
  BY <1>1, Part

(* Two sets together are not larger than their sizes added. *)
LEMMA Together ==
  ASSUME NEW S, NEW T, IsFiniteSet(S), IsFiniteSet(T)
  PROVE  /\ IsFiniteSet(S \cup T) /\ Cardinality(S \cup T) \in Nat
         /\ Cardinality(S \cup T) <= Cardinality(S) + Cardinality(T)
<1>1. /\ IsFiniteSet(S \cup T) /\ IsFiniteSet(S \cap T)
      /\ Cardinality(S \cup T) =
           Cardinality(S) + Cardinality(T) - Cardinality(S \cap T)
  BY FS_Union, FS_Intersection
<1> QED
  BY <1>1, FS_CardinalityType

(* Two sets that both stay below a ceiling outside one element stay below   *)
(* or at it with that element.                                              *)
LEMMA TogetherWith ==
  ASSUME NEW S, NEW T, NEW U, NEW x, NEW n \in Nat, IsFiniteSet(S), IsFiniteSet(T),
         U \subseteq (S \cup T) \cup {x},
         Cardinality(S \ {x}) + Cardinality(T \ {x}) < n
  PROVE  Cardinality(U) <= n
<1>1. IsFiniteSet(S \ {x}) /\ IsFiniteSet(T \ {x})
  BY Part
<1>2. /\ IsFiniteSet((S \ {x}) \cup (T \ {x}))
      /\ Cardinality((S \ {x}) \cup (T \ {x}))
           <= Cardinality(S \ {x}) + Cardinality(T \ {x})
  BY <1>1, Together
<1>3. U \subseteq ((S \ {x}) \cup (T \ {x})) \cup {x}
  OBVIOUS
<1>4. /\ Cardinality(U) \in Nat
      /\ Cardinality(U) <= Cardinality((S \ {x}) \cup (T \ {x})) + 1
      /\ Cardinality((S \ {x}) \cup (T \ {x})) \in Nat
  BY <1>2, <1>3, OneMore
<1>5. Cardinality(S \ {x}) \in Nat /\ Cardinality(T \ {x}) \in Nat
  BY <1>1, FS_CardinalityType
<1> QED
  BY <1>2, <1>4, <1>5

(* The counted sets are finite, in both states of a step. *)
LEMMA Counted ==
  /\ IsFiniteSet(WorkRuns) /\ IsFiniteSet(ObservationRuns)
  /\ IsFiniteSet(VerificationRuns) /\ IsFiniteSet(Granted)
  /\ IsFiniteSet(Claimed) /\ IsFiniteSet(ClaimRuns)
<1>1. /\ WorkRuns \subseteq Runs /\ ObservationRuns \subseteq Runs
      /\ VerificationRuns \subseteq Runs /\ Granted \subseteq Tools
      /\ Claimed \subseteq Reviews /\ ClaimRuns \subseteq Runs
  BY DEF WorkRuns, ObservationRuns, VerificationRuns, Granted, Claimed, ClaimRuns
<1> QED
  BY <1>1, RunsFinite, ToolsFinite, ReviewsFinite, Part

(* A step that acquires nothing adds no run to any count. *)
LEMMA RunsCounted ==
  ASSUME TypeOK, PassOK, PlannedRows, [Next]_vars, \A d \in Drivers : ~Acquires(d)
  PROVE  /\ WorkRuns' \subseteq WorkRuns
         /\ ObservationRuns' \subseteq ObservationRuns
         /\ VerificationRuns' \subseteq VerificationRuns
<1>1. \A o \in Ops : Carries(o)' => Carries(o)
  <2>1. Calm => \A o \in Ops : Carries(o)' => Carries(o)
    BY DEF Calm, CalmDoc, Carries, Active
  <2>2. ASSUME NEW d \in Drivers, Starts(d), NEW o \in Ops, Carries(o)'
        PROVE  Carries(o)
    BY <2>2, StartEffect DEF Carries, Active
  <2> QED
    BY <2>1, <2>2, RowStep
<1> QED
  BY <1>1 DEF WorkRuns, ObservationRuns, VerificationRuns

(* A step that neither grants nor claims frees what it frees. *)
LEMMA GrantsCounted ==
  ASSUME TypeOK, PassOK, [Next]_vars, ~Grants
  PROVE  Granted' \subseteq Granted
  BY PermitMotion DEF PermitMoved, Granted, Grants

(* So does one that claims nothing. *)
LEMMA ClaimsCounted ==
  ASSUME TypeOK, PassOK, [Next]_vars, ~Claims
  PROVE  Claimed' \subseteq Claimed /\ ClaimRuns' \subseteq ClaimRuns
<1>1. ClaimsKept
  BY ClaimMotion
<1> QED
  BY <1>1 DEF ClaimsKept, Claimed, ClaimRuns

(* An acquisition takes one place in its class. *)
LEMMA AcquireCounted ==
  ASSUME TypeOK, PassOK, CeilingsHold, NEW d \in Drivers, Acquires(d)
  PROVE  CeilingsHold'
<1> DEFINE o == target[d]
           r == RunOf[target[d]]
<1>1. o \in Ops /\ r \in Runs /\ Kind[o] \in Kinds
  BY AcquireEffect, OpsAssumption
<1>2. UNCHANGED <<permit, claim>>
  BY AcquireEffect
<1>3. Granted' = Granted /\ Claimed' = Claimed /\ ClaimRuns' = ClaimRuns
  BY <1>2 DEF Granted, Claimed, ClaimRuns
<1>4. \A x \in Ops \ {o} : Carries(x)' <=> Carries(x)
  BY AcquireEffect DEF Carries, Active
<1>5. ClassHasRoom(o) /\ (Kind[o] = "verification" => VerificationHasRoom)
  BY DEF Acquires, AcquireAllowed
<1>6. /\ MaxConcurrentRuns \in Nat /\ MaxConcurrentObservations \in Nat
      /\ MaxConcurrentVerifications \in Nat
  BY CeilingsAssumption
<1> HIDE DEF o, r
<1>7. Cardinality(WorkRuns \cup ClaimRuns)' <= MaxConcurrentRuns
  <2>1. CASE Kind[o] = "observation"
    <3>1. WorkRuns' \subseteq WorkRuns
      BY <1>4, <2>1 DEF WorkRuns
    <3>2. (WorkRuns \cup ClaimRuns)' \subseteq WorkRuns \cup ClaimRuns
      BY <1>3, <3>1
    <3>3. IsFiniteSet(WorkRuns \cup ClaimRuns)
      BY Counted, Together
    <3> QED
      BY <1>6, <3>2, <3>3, Part DEF CeilingsHold
  <2>2. CASE Kind[o] # "observation"
    <3>1. WorkRuns' \subseteq WorkRuns \cup {r}
      BY <1>4 DEF WorkRuns, r, o
    <3>2. (WorkRuns \cup ClaimRuns)' \subseteq (WorkRuns \cup ClaimRuns) \cup {r}
      BY <1>3, <3>1
    <3>3. Cardinality(WorkRuns \ {r}) + Cardinality(ClaimRuns \ {r}) < MaxConcurrentRuns
      BY <1>5, <2>2 DEF ClassHasRoom, workCount, r, o
    <3>4. IsFiniteSet(WorkRuns) /\ IsFiniteSet(ClaimRuns)
      BY Counted
    <3>5. Cardinality((WorkRuns \cup ClaimRuns)') <= MaxConcurrentRuns
      BY <1>6, <3>2, <3>3, <3>4, TogetherWith
    <3> QED
      BY <3>5
  <2> QED
    BY <2>1, <2>2
<1>8. Cardinality(ObservationRuns)' <= MaxConcurrentObservations
  <2>1. CASE Kind[o] = "observation"
    <3>1. ObservationRuns' \subseteq (ObservationRuns \ {r}) \cup {r}
      BY <1>4 DEF ObservationRuns, r, o
    <3>2. Cardinality(ObservationRuns \ {r}) < MaxConcurrentObservations
      BY <1>5, <2>1 DEF ClassHasRoom, r, o
    <3>3. IsFiniteSet(ObservationRuns \ {r})
      BY Counted, Part
    <3>4. /\ Cardinality(ObservationRuns') <= Cardinality(ObservationRuns \ {r}) + 1
          /\ Cardinality(ObservationRuns') \in Nat
          /\ Cardinality(ObservationRuns \ {r}) \in Nat
      BY <3>1, <3>3, OneMore
    <3> QED
      BY <1>6, <3>2, <3>4
  <2>2. CASE Kind[o] # "observation"
    <3>1. ObservationRuns' \subseteq ObservationRuns
      BY <1>4, <2>2 DEF ObservationRuns
    <3> QED
      BY <1>6, <3>1, Counted, Part DEF CeilingsHold
  <2> QED
    BY <2>1, <2>2
<1>9. verificationCount' <= MaxConcurrentVerifications
  <2>n. /\ Cardinality(VerificationRuns) \in Nat
        /\ Cardinality(Granted) \in Nat /\ Cardinality(Claimed) \in Nat
    BY Counted, FS_CardinalityType
  <2>c. verificationCount' =
          Cardinality(VerificationRuns') + Cardinality(Granted) + Cardinality(Claimed)
    BY <1>3 DEF verificationCount
  <2>1. CASE Kind[o] = "verification"
    <3>1. VerificationRuns' \subseteq VerificationRuns \cup {r}
      BY <1>4 DEF VerificationRuns, r, o
    <3>2. verificationCount < MaxConcurrentVerifications
      BY <1>5, <2>1 DEF VerificationHasRoom
    <3>3. /\ Cardinality(VerificationRuns') <= Cardinality(VerificationRuns) + 1
          /\ Cardinality(VerificationRuns') \in Nat
      BY <3>1, Counted, OneMore
    <3> QED
      BY <1>6, <2>n, <2>c, <3>2, <3>3 DEF verificationCount
  <2>2. CASE Kind[o] # "verification"
    <3>1. VerificationRuns' \subseteq VerificationRuns
      BY <1>4, <2>2 DEF VerificationRuns
    <3>2. /\ Cardinality(VerificationRuns') <= Cardinality(VerificationRuns)
          /\ Cardinality(VerificationRuns') \in Nat
      BY <3>1, Counted, Part
    <3> QED
      BY <1>6, <2>n, <2>c, <3>2 DEF verificationCount, CeilingsHold
  <2> QED
    BY <2>1, <2>2
<1> QED
  BY <1>7, <1>8, <1>9 DEF CeilingsHold

(* A grant takes one place among the verifications. *)
LEMMA GrantCounted ==
  ASSUME TypeOK, CeilingsHold, NEW t \in Tools, AcquireVerification(t)
  PROVE  CeilingsHold'
<1>1. UNCHANGED <<row, claim>>
  BY DEF AcquireVerification, permitRest
<1>2. /\ WorkRuns' = WorkRuns /\ ObservationRuns' = ObservationRuns
      /\ VerificationRuns' = VerificationRuns
      /\ Claimed' = Claimed /\ ClaimRuns' = ClaimRuns
  BY <1>1 DEF WorkRuns, ObservationRuns, VerificationRuns, Claimed, ClaimRuns,
     Carries, Active
<1>3. PICK gone \in SUBSET (ReclaimablePermits \ {t}) :
        /\ Cardinality(VerificationRuns)
             + Cardinality({u \in Tools : Reclaimed(gone)[u].state = "granted"})
             + Cardinality(Claimed) < MaxConcurrentVerifications
        /\ permit' = [Reclaimed(gone) EXCEPT ![t] = [permit[t] EXCEPT
                       !.state = "granted", !.flags = @ \ {"lapsed"}]]
  BY DEF AcquireVerification
<1> DEFINE G == {u \in Tools : Reclaimed(gone)[u].state = "granted"}
<1>4. Granted' \subseteq G \cup {t}
  BY <1>3 DEF Granted, Reclaimed
<1>5. IsFiniteSet(G)
  BY ToolsFinite, Part
<1>6. Cardinality(VerificationRuns) + Cardinality(G) + Cardinality(Claimed)
        < MaxConcurrentVerifications
  BY <1>3
<1> HIDE DEF G
<1>7. /\ Cardinality(Granted') <= Cardinality(G) + 1
      /\ Cardinality(Granted') \in Nat /\ Cardinality(G) \in Nat
  BY <1>4, <1>5, OneMore
<1>8. /\ Cardinality(VerificationRuns) \in Nat /\ Cardinality(Claimed) \in Nat
      /\ MaxConcurrentVerifications \in Nat
  BY Counted, FS_CardinalityType, CeilingsAssumption
<1>9. Cardinality(VerificationRuns) + Cardinality(Granted') + Cardinality(Claimed)
        <= MaxConcurrentVerifications
  BY <1>6, <1>7, <1>8
<1>10. verificationCount' <= MaxConcurrentVerifications
  BY <1>2, <1>9 DEF verificationCount
<1> QED
  BY <1>2, <1>10 DEF CeilingsHold

(* A review takes one place among the verifications and one in its run. *)
LEMMA ClaimCounted ==
  ASSUME TypeOK, CeilingsHold, NEW p \in Procs, NEW c \in Reviews, NEW r \in Runs,
         ClaimReviewSlot(p, c, r)
  PROVE  CeilingsHold'
<1> DEFINE L == Claimed \ ReclaimableClaims
           Q == {q \in Runs : \E e \in L : claim[e].run = q}
<1>1. UNCHANGED <<row, permit>>
  BY DEF ClaimReviewSlot, permitRest
<1>2. /\ WorkRuns' = WorkRuns /\ ObservationRuns' = ObservationRuns
      /\ VerificationRuns' = VerificationRuns /\ Granted' = Granted
  BY <1>1 DEF WorkRuns, ObservationRuns, VerificationRuns, Granted, Carries, Active
<1>3. /\ Cardinality(VerificationRuns) + Cardinality(Granted) + Cardinality(L)
           < MaxConcurrentVerifications
      /\ Cardinality(WorkRuns \ {r}) + Cardinality(Q \ {r}) < MaxConcurrentRuns
      /\ claim' = [e \in Reviews |->
           IF e = c THEN [owner |-> p, run |-> r, flags |-> {}]
           ELSE IF e \in ReclaimableClaims THEN NoClaim ELSE claim[e]]
  BY DEF ClaimReviewSlot
<1>4. Claimed' \subseteq L \cup {c}
  BY <1>3 DEF Claimed, NoClaim
<1>5. ClaimRuns' \subseteq Q \cup {r}
  BY <1>3, <1>4 DEF ClaimRuns, Claimed, NoClaim
<1>6. IsFiniteSet(L) /\ IsFiniteSet(Q)
  BY Counted, RunsFinite, Part
<1> HIDE DEF L, Q
<1>7. Cardinality((WorkRuns \cup ClaimRuns)') <= MaxConcurrentRuns
  <2>1. (WorkRuns \cup ClaimRuns)' \subseteq (WorkRuns \cup Q) \cup {r}
    BY <1>2, <1>5
  <2>2. IsFiniteSet(WorkRuns) /\ MaxConcurrentRuns \in Nat
    BY Counted, CeilingsAssumption
  <2>3. /\ IsFiniteSet(Q)
        /\ Cardinality(WorkRuns \ {r}) + Cardinality(Q \ {r}) < MaxConcurrentRuns
    BY <1>3, <1>6
  <2>4. \A U : U \subseteq (WorkRuns \cup Q) \cup {r} =>
                Cardinality(U) <= MaxConcurrentRuns
    BY <2>2, <2>3, TogetherWith, Zenon
  <2> QED
    BY <2>1, <2>4, Zenon
<1>8. verificationCount' <= MaxConcurrentVerifications
  <2>1. /\ Cardinality(Claimed') <= Cardinality(L) + 1
        /\ Cardinality(Claimed') \in Nat /\ Cardinality(L) \in Nat
    BY <1>4, <1>6, OneMore
  <2>2. /\ Cardinality(VerificationRuns) \in Nat /\ Cardinality(Granted) \in Nat
        /\ MaxConcurrentVerifications \in Nat
    BY Counted, FS_CardinalityType, CeilingsAssumption
  <2>3. Cardinality(VerificationRuns) + Cardinality(Granted) + Cardinality(Claimed')
          <= MaxConcurrentVerifications
    BY <1>3, <2>1, <2>2
  <2> QED
    BY <1>2, <2>3 DEF verificationCount
<1> QED
  BY <1>2, <1>7, <1>8 DEF CeilingsHold

(* Every step preserves the ceilings. *)
LEMMA CeilingsStep ==
  ASSUME TypeOK, PassOK, PlannedRows, CeilingsHold, [Next]_vars
  PROVE  CeilingsHold'
<1>1. CASE \E d \in Drivers : Acquires(d)
  BY <1>1, AcquireCounted
<1>2. CASE Grants
  BY <1>2, GrantCounted DEF Grants
<1>3. CASE Claims
  BY <1>3, ClaimCounted DEF Claims
<1>4. CASE ~Grants /\ ~Claims /\ \A d \in Drivers : ~Acquires(d)
  <2>1. /\ WorkRuns' \subseteq WorkRuns /\ ObservationRuns' \subseteq ObservationRuns
        /\ VerificationRuns' \subseteq VerificationRuns
    BY <1>4, RunsCounted
  <2>2. /\ Granted' \subseteq Granted /\ Claimed' \subseteq Claimed
        /\ ClaimRuns' \subseteq ClaimRuns
    BY <1>4, GrantsCounted, ClaimsCounted
  <2>3. IsFiniteSet(WorkRuns \cup ClaimRuns)
    BY Counted, Together
  <2>4. (WorkRuns \cup ClaimRuns)' \subseteq WorkRuns \cup ClaimRuns
    BY <2>1, <2>2
  <2>5. /\ Cardinality((WorkRuns \cup ClaimRuns)') <= Cardinality(WorkRuns \cup ClaimRuns)
        /\ Cardinality((WorkRuns \cup ClaimRuns)') \in Nat
        /\ Cardinality(WorkRuns \cup ClaimRuns) \in Nat
    BY <2>3, <2>4, Part
  <2>6. /\ Cardinality(ObservationRuns') <= Cardinality(ObservationRuns)
        /\ Cardinality(ObservationRuns') \in Nat /\ Cardinality(ObservationRuns) \in Nat
    BY <2>1, Counted, Part
  <2>7. /\ Cardinality(VerificationRuns') <= Cardinality(VerificationRuns)
        /\ Cardinality(VerificationRuns') \in Nat
        /\ Cardinality(VerificationRuns) \in Nat
    BY <2>1, Counted, Part
  <2>8. /\ Cardinality(Granted') <= Cardinality(Granted)
        /\ Cardinality(Granted') \in Nat /\ Cardinality(Granted) \in Nat
    BY <2>2, Counted, Part
  <2>9. /\ Cardinality(Claimed') <= Cardinality(Claimed)
        /\ Cardinality(Claimed') \in Nat /\ Cardinality(Claimed) \in Nat
    BY <2>2, Counted, Part
  <2>10. /\ MaxConcurrentRuns \in Nat /\ MaxConcurrentObservations \in Nat
         /\ MaxConcurrentVerifications \in Nat
    BY CeilingsAssumption
  <2>11. verificationCount' <= MaxConcurrentVerifications
    BY <2>7, <2>8, <2>9, <2>10 DEF verificationCount, CeilingsHold
  <2> QED
    BY <2>5, <2>6, <2>10, <2>11 DEF CeilingsHold
<1> QED
  BY <1>1, <1>2, <1>3, <1>4

(* The ceilings hold across any number of processes that each count alone:  *)
(* the count and the write that takes a place are one statement, and no     *)
(* other step takes one.                                                    *)
THEOREM CeilingsHoldAlways == Spec => []CeilingsHold
<1>1. Init => CeilingsHold
  <2> SUFFICES ASSUME Init PROVE CeilingsHold
    OBVIOUS
  <2>1. /\ WorkRuns = {} /\ ObservationRuns = {} /\ VerificationRuns = {}
        /\ Granted = {} /\ Claimed = {}
    BY DEF Init, StoreInit, WorkRuns, ObservationRuns, VerificationRuns, Granted,
       Claimed, Carries, Active, AbsentRow, NoPermit, NoClaim
  <2>2. ClaimRuns = {}
    BY <2>1 DEF ClaimRuns
  <2>3. Cardinality({}) = 0 /\ WorkRuns \cup ClaimRuns = {}
    BY <2>1, <2>2, FS_EmptySet
  <2> QED
    BY <2>1, <2>2, <2>3, CeilingsAssumption DEF CeilingsHold, verificationCount
<1>2. TypeOK /\ PassOK /\ DriverInv /\ CeilingsHold /\ [Next]_vars => CeilingsHold'
  BY CeilingsStep DEF DriverInv
<1> QED
  BY <1>1, <1>2, TypeCorrect, DriverInvAlways, PTL DEF Spec
=============================================================================
