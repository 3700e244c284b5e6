------------------------------ MODULE Scheduler ------------------------------
(***************************************************************************)
(* The drivers of the control plane (runtime/scheduler.go,                 *)
(* driver_leases.go and the operation path of runtime/reconciler.go)       *)
(* running against the store of OperationStore, beside the operator of     *)
(* RunControl and the permits of VerificationPermits.                      *)
(*                                                                         *)
(* A pass of a driver replays the run's journal, finishes rows the journal *)
(* already settled, stops if somebody else drives the run, plans an        *)
(* operation, asks Next for one to lease, starts it, journals that, does   *)
(* the work, journals the outcome, finishes the row and relinquishes       *)
(* whatever lease is left.  Each read and each write is a step wherever    *)
(* the code decides on what it read; a scheduler transition, which re-reads *)
(* until its compare-and-set wins, is one step, and the error it can end   *)
(* in instead is DriverFails.                                              *)
(***************************************************************************)
EXTENDS VerificationPermits, RunControl

CONSTANT MaxIdentity    \* bound: physical attempts of one operation
ASSUME IdentityBound == MaxIdentity \in Nat

VARIABLES
  pc,        \* where a driver is
  target,    \* the operation it is handling
  todo,      \* the operations its current scan has still to look at
  view       \* what its pass remembers: replayed or appended outcomes, that
             \* the run was paused, the operation it planned

driverVars == <<pc, target, todo, view>>
vars == <<storeVars, controlVars, driverVars>>
driverRest == <<runRow, paused, permit, claim, alive, controlVars>>
rowRest == <<driverRest, journal, view>>

PassPcs == {"lag", "clear", "exhausted"}
NextPcs == {"planned", "reclaim", "reclaimPut", "scan", "expirePut", "acquire"}
(* DriverLeases: from the grant being written until Relinquish returns, the *)
(* process's memory says that the grant is held.                            *)
HoldingPcs ==
  {"leased", "started", "before", "running", "after", "finished", "exit"}
Pcs == {"idle", "dead"} \cup PassPcs \cup NextPcs \cup HoldingPcs

ViewDoc ==
  [paused : SUBSET Runs, ops : [Ops -> JournalStates],
   planned : Ops \cup {NoOp}]
Forgotten ==
  [paused |-> {}, ops |-> [o \in Ops |-> "open"], planned |-> NoOp]

Holds(p, o) ==
  \E d \in Drivers :
    d = <<p, RunOf[o]>> /\ pc[d] \in HoldingPcs /\ target[d] = o

(* stranded: this process wrote the lease and its driver has returned. *)
stranded(p, o) == row[o].lease = p /\ Active(o) /\ ~Holds(p, o)

(* Mutant: only the leases of dead processes are given up. *)
abandonedByTheDead(p, o) == row[o].lease # NoProc /\ CanAcquire(o)

abandoned(p, o) ==
  row[o].lease # NoProc /\ (CanAcquire(o) \/ stranded(p, o))

Init ==
  /\ StoreInit
  /\ ControlInit
  /\ pc = [d \in Drivers |-> "idle"]
  /\ target = [d \in Drivers |-> NoOp]
  /\ todo = [d \in Drivers |-> {}]
  /\ view = [d \in Drivers |-> Forgotten]

At(d, here) == pc[d] = here /\ d[1] \in alive
Go(d, there) == pc' = [pc EXCEPT ![d] = there]
Handle(d, o) == target' = [target EXCEPT ![d] = o]
Skip(d, o) == todo' = [todo EXCEPT ![d] = @ \ {o}]
ReadRow(d, o) == seen' = [seen EXCEPT ![d] = o]

Remember(d, v) == view' = [view EXCEPT ![d] = v]

-----------------------------------------------------------------------------
(* The pass before it plans (EngineeringRuntime.Reconcile). *)

(* Mutant: the list is of every active row, settled by replay or not. *)
LoadAllActive(d) ==
  LET lagging == {o \in Ops : RunOf[o] = d[2] /\ Active(o)}
  IN /\ At(d, "idle")
     /\ Remember(d, [paused |-> paused \cap {d[2]},
                     ops |-> [o \in Ops |-> IF o \in lagging THEN journal[o]
                                                             ELSE "open"],
                     planned |-> NoOp])
     /\ todo' = [todo EXCEPT ![d] = lagging]
     /\ Go(d, "lag")
     /\ UNCHANGED <<driverRest, row, journal, seen, target>>

(* load, then the list reconcileStoreLag takes: the run's rows that are     *)
(* active although replay says they ended.  The rows are read after the     *)
(* journal, but a row leased in between stood, when it was leased, against  *)
(* the same record: one step reaches the same lists.                        *)
Load(d) ==
  LET lagging == {o \in Ops : RunOf[o] = d[2] /\ Active(o)
                               /\ journal[o] \in Outcomes}
  IN /\ At(d, "idle")
     /\ Remember(d, [paused |-> paused \cap {d[2]},
                     ops |-> [o \in Ops |-> IF o \in lagging THEN journal[o]
                                                             ELSE "open"],
                     planned |-> NoOp])
     /\ todo' = [todo EXCEPT ![d] = lagging]
     /\ Go(d, "lag")
     /\ UNCHANGED <<driverRest, row, journal, seen, target>>

(* reconcileStoreLag finishes them one by one, whoever holds their lease;   *)
(* a row that is no longer active by then ends the pass.                    *)
LagFinish(d, o) ==
  /\ At(d, "lag") /\ o \in todo[d]
  /\ IF Active(o)
       THEN /\ \E waited, defer \in BOOLEAN :
                 /\ defer => view[d].ops[o] = "failed" /\ o \in Delayed
                 /\ Write(o, Finished(o, view[d].ops[o], defer, waited))
            /\ Skip(d, o) /\ UNCHANGED <<pc, view>>
       ELSE /\ Go(d, "idle") /\ todo' = [todo EXCEPT ![d] = {}]
            /\ Remember(d, Forgotten)
            /\ UNCHANGED <<row, seen>>
  /\ UNCHANGED <<driverRest, journal, target>>

(* drivenElsewhere: another process holds an operation of the run and may   *)
(* not be taken over.                                                       *)
drivenElsewhere(d) ==
  \E o \in Ops : /\ RunOf[o] = d[2] /\ Carries(o) /\ row[o].lease # d[1]
                 /\ ~CanAcquire(o)

(* A run that was paused, or is driven elsewhere, is returned unchanged. *)
CheckDrivers(d) ==
  /\ At(d, "lag") /\ todo[d] = {}
  /\ Go(d, IF view[d].paused # {} \/ drivenElsewhere(d) THEN "idle" ELSE "clear")
  /\ Remember(d, Forgotten)
  /\ UNCHANGED <<driverRest, row, journal, seen, target, todo>>

-----------------------------------------------------------------------------
(* Planning, and the exits before Next (runOperation). *)

(* Which operation the pass wants, if any, is the planner's business. *)
NothingWanted(d) ==
  /\ At(d, "clear")
  /\ Go(d, "idle")
  /\ UNCHANGED <<rowRest, row, seen, target, todo>>

(* Scheduler.Plan: insert the row, or adopt the one the key already has.    *)
(* The pass ends here if no attempt is left or the retry is not due.        *)
Plan(d, o) ==
  /\ At(d, "clear") /\ RunOf[o] = d[2]
  /\ IF row[o].state = "absent"
       THEN Write(o, [AbsentRow EXCEPT !.state = "pending"])
       ELSE UNCHANGED <<row, seen>>
  /\ Go(d, IF row[o].attempt >= MaxAttempts[o] THEN "exhausted"
           ELSE IF Flagged(o, "deferred") THEN "idle" ELSE "planned")
  /\ Remember(d, [Forgotten EXCEPT !.planned =
       IF row[o].attempt < MaxAttempts[o] /\ ~Flagged(o, "deferred")
         THEN o ELSE NoOp])
  /\ UNCHANGED <<driverRest, journal, target, todo>>

(* The run settles as failed, unless it was stopped. *)
AttemptsExhausted(d) ==
  /\ At(d, "exhausted")
  /\ runRow' = [runRow EXCEPT ![d[2]] = IF @ = "cancelled" THEN @ ELSE "ended"]
  /\ Go(d, "idle")
  /\ UNCHANGED <<row, journal, seen, paused, permit, claim, alive, controlVars,
                 target, todo, view>>

-----------------------------------------------------------------------------
(* Scheduler.Next. *)

(* Permits and claims of the dead are reclaimed first; a permit still      *)
(* granted in this run means an earlier attempt's tool is not cleaned up,  *)
(* and nothing is leased.  Otherwise every lease in the store is examined. *)
BeginNext(d) ==
  /\ At(d, "planned")
  /\ \E gone \in SUBSET ReclaimablePermits :
       /\ permit' = Reclaimed(gone)
       /\ IF \E t \in Granted \ gone : RunOf[permit[t].op] = d[2]
            THEN Go(d, "idle") /\ Remember(d, Forgotten) /\ UNCHANGED todo
            ELSE /\ Go(d, "reclaim") /\ UNCHANGED view
                 /\ todo' = [todo EXCEPT ![d] = {o \in Ops : Carries(o)}]
  /\ claim' = [c \in Reviews |->
                 IF c \in ReclaimableClaims THEN NoClaim ELSE claim[c]]
  /\ UNCHANGED <<row, journal, runRow, paused, seen, alive, controlVars,
                 target>>

(* reclaimAbandoned: read and judge, *)
ReclaimRead(d, o) ==
  /\ At(d, "reclaim") /\ o \in todo[d]
  /\ IF Active(o) /\ abandoned(d[1], o)
       THEN ReadRow(d, o) /\ Go(d, "reclaimPut") /\ Handle(d, o) /\ UNCHANGED todo
       ELSE Skip(d, o) /\ UNCHANGED <<seen, pc, target>>
  /\ UNCHANGED <<rowRest, row>>

(* then drop the lease, and only the lease, at the revision that was read. *)
ReclaimPut(d) ==
  LET o == target[d] IN
  /\ At(d, "reclaimPut")
  /\ CompareAndSet(d, o, [row[o] EXCEPT !.lease = NoProc])
  /\ Skip(d, o) /\ Go(d, "reclaim") /\ Handle(d, NoOp)
  /\ UNCHANGED rowRest

ScanCandidates(d) ==
  /\ At(d, "reclaim") /\ todo[d] = {}
  /\ Go(d, "scan")
  /\ todo' = [todo EXCEPT ![d] =
       {o \in Ops : RunOf[o] = d[2] /\ row[o].state # "absent"}]
  /\ UNCHANGED <<rowRest, row, seen, target>>

(* Dependencies are judged on the list the scan began with: one that        *)
(* succeeds meanwhile is met by the next scan.                              *)
CandidateRead(d, o) ==
  /\ At(d, "scan") /\ o \in todo[d]
  /\ IF leasable(o)
       THEN /\ ReadRow(d, o) /\ Handle(d, o) /\ UNCHANGED todo
            /\ Go(d, IF Flagged(o, "expired") THEN "expirePut" ELSE "acquire")
       ELSE Skip(d, o) /\ UNCHANGED <<seen, pc, target>>
  /\ UNCHANGED <<rowRest, row>>

(* Out of execution authority: failed where it stands. *)
ExpirePut(d) ==
  LET o == target[d] IN
  /\ At(d, "expirePut")
  /\ CompareAndSet(d, o, [row[o] EXCEPT !.state = "failed", !.lease = NoProc])
  /\ Skip(d, o) /\ Go(d, "scan") /\ Handle(d, NoOp)
  /\ UNCHANGED rowRest

AcquireOperation(d) ==
  LET o == target[d] IN
  /\ At(d, "acquire")
  /\ IF AcquireAllowed(d, o)
       THEN /\ Write(o, [row[o] EXCEPT !.state = "leased", !.lease = d[1],
                                       !.flags = @ \ {"lapsed"}])
            /\ Go(d, "leased")
            /\ todo' = [todo EXCEPT ![d] = {}]
            /\ UNCHANGED target
       ELSE /\ Skip(d, o) /\ Go(d, "scan") /\ Handle(d, NoOp)
            /\ UNCHANGED <<row, seen>>
  /\ UNCHANGED rowRest

NothingLeased(d) ==
  /\ At(d, "scan") /\ todo[d] = {}
  /\ Go(d, "idle") /\ Remember(d, Forgotten)
  /\ UNCHANGED <<driverRest, row, journal, seen, target, todo>>

-----------------------------------------------------------------------------
(* The attempt. *)

(* A leased operation that was tried before and whose recorded failure is  *)
(* not worth repeating is finished as failed without being started; the    *)
(* journal already says so.                                                *)
FinishUnstarted(d) ==
  LET o == target[d] IN
  /\ At(d, "leased") /\ row[o].identity > 0
  /\ IF Active(o)
       THEN \E waited \in BOOLEAN : Write(o, Finished(o, "failed", FALSE, waited))
       ELSE UNCHANGED <<row, seen>>
  /\ Go(d, "exit") /\ Remember(d, Forgotten)
  /\ UNCHANGED <<driverRest, journal, target, todo>>

(* cancelStaleLeasedOperation: Next may lease another operation than the    *)
(* one planned; if the state no longer wants it, it is journalled as        *)
(* cancelled before its row is finished.                                    *)
JournalStale(d) ==
  LET o == target[d] IN
  /\ At(d, "leased") /\ o # view[d].planned
  /\ journal' = [journal EXCEPT ![o] = "cancelled"]
  /\ Remember(d, [Forgotten EXCEPT !.ops[o] = "cancelled"])
  /\ Go(d, "after")
  /\ UNCHANGED <<driverRest, row, seen, target, todo>>

(* Mutant: the identity is derived from the attempt counter, which an      *)
(* attempt given back moves down.                                          *)
StartWithinCounted(d) ==
  LET o == target[d] IN
  /\ At(d, "leased")
  /\ IF row[o].state = "leased" /\ row[o].lease = d[1]
       THEN /\ row[o].identity < MaxIdentity
            /\ \E waited \in BOOLEAN :
                 Write(o, [row[o] EXCEPT
                   !.state = "running", !.attempt = @ + 1,
                   !.identity = row[o].attempt + 1,
                   !.flags = (@ \ IF Flagged(o, "active") /\ waited
                                    THEN {"expired"} ELSE {}) \cup {"active"}])
            /\ Go(d, "started")
       ELSE Go(d, "exit") /\ UNCHANGED <<row, seen>>
  /\ Remember(d, Forgotten)
  /\ UNCHANGED <<driverRest, journal, target, todo>>

(* StartWithin: a fresh physical attempt.  An attempt somebody abandoned   *)
(* is charged now, less the time it waited for permits.                    *)
StartWithin(d) ==
  LET o == target[d] IN
  /\ At(d, "leased")
  /\ IF row[o].state = "leased" /\ row[o].lease = d[1]
       THEN /\ row[o].identity < MaxIdentity
            /\ \E waited \in BOOLEAN :
                 Write(o, [row[o] EXCEPT
                   !.state = "running", !.attempt = @ + 1,
                   !.identity = @ + 1,
                   !.flags = (@ \ IF Flagged(o, "active") /\ waited
                                    THEN {"expired"} ELSE {}) \cup {"active"}])
            /\ Go(d, "started")
       ELSE Go(d, "exit") /\ UNCHANGED <<row, seen>>
  /\ Remember(d, Forgotten)
  /\ UNCHANGED <<driverRest, journal, target, todo>>

(* operation.before is journalled once the row says running. *)
JournalBefore(d) ==
  /\ At(d, "started")
  /\ journal' = [journal EXCEPT ![target[d]] = "open"]
  /\ Go(d, "before")
  /\ UNCHANGED <<driverRest, row, seen, target, todo, view>>

(* ReserveAttemptIdentity: transcripts that already exist push the         *)
(* identity past them before the provider runs.                            *)
ReserveAttemptIdentity(d, identity) ==
  LET o == target[d] IN
  /\ At(d, "before")
  /\ IF identity > row[o].identity
       THEN Write(o, [row[o] EXCEPT !.identity = identity])
       ELSE UNCHANGED <<row, seen>>
  /\ Go(d, "running")
  /\ UNCHANGED <<rowRest, target, todo>>

(* A tool of the running provider asks for a permit. *)
ToolRequests(d, t) ==
  /\ At(d, "running")
  /\ RequestVerification(d[1], target[d], t)
  /\ UNCHANGED <<controlVars, driverVars>>

(* operation.after: the journal is written first and is the authority. *)
JournalAfter(d, outcome) ==
  LET o == target[d] IN
  /\ At(d, "running")
  /\ journal' = [journal EXCEPT ![o] = outcome]
  /\ Remember(d, [Forgotten EXCEPT !.ops[o] = outcome])
  /\ Go(d, "after")
  /\ UNCHANGED <<driverRest, row, seen, target, todo>>

(* finishAt with what was journalled.  A failure may be worth retrying only *)
(* later.                                                                   *)
Finish(d, defer) ==
  LET o == target[d]
      state == view[d].ops[o] IN
  /\ At(d, "after")
  /\ defer => state = "failed" /\ o \in Delayed
  /\ IF Active(o)
       THEN /\ \E waited \in BOOLEAN : Write(o, Finished(o, state, defer, waited))
            /\ Go(d, IF state = "failed" THEN "finished" ELSE "exit")
       ELSE Go(d, "exit") /\ UNCHANGED <<row, seen>>
  /\ Remember(d, Forgotten)
  /\ UNCHANGED <<driverRest, journal, target, todo>>

(* RestoreAttempt: an attempt that only observed an external refusal is    *)
(* given back; its physical identity never is.                             *)
RestoreAttempt(d, refund) ==
  LET o == target[d] IN
  /\ At(d, "finished")
  /\ IF row[o].state = "failed"
       THEN Write(o, [row[o] EXCEPT
              !.attempt = IF @ > 0 THEN @ - 1 ELSE @,
              !.lease = NoProc,
              !.flags = @ \ ({"active"} \cup IF refund THEN {"expired"} ELSE {})])
       ELSE UNCHANGED <<row, seen>>
  /\ Go(d, "exit")
  /\ UNCHANGED <<rowRest, target, todo>>

KeepAttempt(d) ==
  /\ At(d, "finished")
  /\ Go(d, "exit")
  /\ UNCHANGED <<rowRest, row, seen, target, todo>>

(* A store or journal error ends the pass at any point. *)
DriverFails(d) ==
  /\ d[1] \in alive
  /\ \/ /\ pc[d] \in PassPcs \cup NextPcs
        /\ Go(d, "idle") /\ Handle(d, NoOp)
     \/ /\ pc[d] \in HoldingPcs \ {"exit"}
        /\ Go(d, "exit") /\ UNCHANGED target
  /\ todo' = [todo EXCEPT ![d] = {}]
  /\ Remember(d, Forgotten)
  /\ UNCHANGED <<driverRest, row, journal, seen>>

(* Relinquish runs on every exit: it takes the lease off a row that still  *)
(* carries this driver's grant, may lose that write, and forgets the grant *)
(* either way.                                                             *)
Relinquish(d) ==
  LET o == target[d] IN
  /\ At(d, "exit")
  /\ \/ /\ Active(o) /\ row[o].lease = d[1]
        /\ Write(o, [row[o] EXCEPT !.lease = NoProc])
     \/ UNCHANGED <<row, seen>>
  /\ Go(d, "idle") /\ Handle(d, NoOp)
  /\ UNCHANGED <<rowRest, todo>>

-----------------------------------------------------------------------------
(* The environment: processes die, time passes. *)

Crash(p) ==
  /\ p \in alive
  /\ alive' = alive \ {p}
  /\ pc' = [d \in Drivers |-> IF d[1] = p THEN "dead" ELSE pc[d]]
  /\ target' = [d \in Drivers |-> IF d[1] = p THEN NoOp ELSE target[d]]
  /\ todo' = [d \in Drivers |-> IF d[1] = p THEN {} ELSE todo[d]]
  /\ seen' = [d \in Drivers |-> IF d[1] = p THEN NoOp ELSE seen[d]]
  /\ view' = [d \in Drivers |-> IF d[1] = p THEN Forgotten ELSE view[d]]
  /\ UNCHANGED <<row, journal, runRow, paused, permit, claim, controlVars>>

LeaseLapses(o) ==
  /\ Carries(o) /\ ~Flagged(o, "lapsed")
  /\ row' = [row EXCEPT ![o].flags = @ \cup {"lapsed"}]
  /\ UNCHANGED <<driverRest, driverVars, journal, seen>>

RetryDue(o) ==
  /\ Flagged(o, "deferred")
  /\ row' = [row EXCEPT ![o].flags = @ \ {"deferred"}]
  /\ UNCHANGED <<driverRest, driverVars, journal, seen>>

BudgetElapses(o) ==
  /\ o \in Budgeted /\ Flagged(o, "active") /\ ~Flagged(o, "expired")
  /\ row' = [row EXCEPT ![o].flags = @ \cup {"expired"}]
  /\ UNCHANGED <<driverRest, driverVars, journal, seen>>

-----------------------------------------------------------------------------
DriverMoves(d) ==
  \/ Load(d) \/ CheckDrivers(d)
  \/ NothingWanted(d) \/ AttemptsExhausted(d) \/ BeginNext(d)
  \/ ReclaimPut(d) \/ ScanCandidates(d) \/ ExpirePut(d)
  \/ AcquireOperation(d) \/ NothingLeased(d)
  \/ FinishUnstarted(d) \/ JournalStale(d) \/ StartWithin(d)
  \/ JournalBefore(d) \/ KeepAttempt(d) \/ Relinquish(d)
  \/ \E o \in Ops : LagFinish(d, o) \/ ReclaimRead(d, o) \/ CandidateRead(d, o)
  \/ \E identity \in 0 .. MaxIdentity : ReserveAttemptIdentity(d, identity)
  \/ \E outcome \in Outcomes : JournalAfter(d, outcome)
  \/ \E defer \in BOOLEAN : Finish(d, defer)
  \/ \E refund \in BOOLEAN : RestoreAttempt(d, refund)

DriverStep ==
  \E d \in Drivers :
    \/ DriverMoves(d) \/ DriverFails(d)
    \/ \E o \in Ops : Plan(d, o)
    \/ \E t \in Tools : ToolRequests(d, t)

EnvironmentStep ==
  \/ \E p \in Procs : Crash(p)
  \/ \E o \in Ops : LeaseLapses(o) \/ RetryDue(o) \/ BudgetElapses(o)

Next ==
  \/ DriverStep
  \/ EnvironmentStep
  \/ ControlStep /\ UNCHANGED driverVars
  \/ PermitStep /\ UNCHANGED <<controlVars, driverVars>>

Spec == Init /\ [][Next]_vars

(* A driver that can take its next step takes it, and time passes. *)
FairSpec ==
  /\ Spec
  /\ \A d \in Drivers : WF_vars(DriverMoves(d))
  /\ \A o \in Ops : WF_vars(LeaseLapses(o))

-----------------------------------------------------------------------------
(* Type invariant: every row, permit, claim and driver holds a value of its *)
(* kind, and a lease or a permit names processes and operations that exist. *)
TypeOK ==
  /\ row \in [Ops -> RowDoc]
  /\ journal \in [Ops -> JournalStates]
  /\ runRow \in [Runs -> RunStates]
  /\ paused \subseteq Runs
  /\ permit \in [Tools -> PermitDoc]
  /\ claim \in [Reviews -> ClaimDoc]
  /\ seen \in [Drivers -> Ops \cup {NoOp}]
  /\ alive \subseteq Procs
  /\ stop \in [Runs -> StopStates]
  /\ stopTodo \in [Runs -> SUBSET Ops]
  /\ stopAsked \in [Runs -> Ops \cup {NoOp}]
  /\ pc \in [Drivers -> Pcs]
  /\ target \in [Drivers -> Ops \cup {NoOp}]
  /\ todo \in [Drivers -> SUBSET Ops]
  /\ view \in [Drivers -> ViewDoc]

DrivingPcs == {"leased", "started", "before", "running", "after"}

(* "A run holds at most one active operation" is a durable fact: whatever   *)
(* processes, crashes and takeovers do, two operations of one run never     *)
(* carry a lease together (AcquireOperation).                               *)
OneLeasePerRun ==
  \A o1, o2 \in Ops :
    Carries(o1) /\ Carries(o2) /\ RunOf[o1] = RunOf[o2] => o1 = o2

(* The ceilings hold across processes: runs doing work or under independent *)
(* review, runs observing, and verifications of all three sources together  *)
(* never exceed what is configured, although every process counts alone.    *)
CeilingsHold ==
  /\ Cardinality(WorkRuns \cup ClaimRuns) <= MaxConcurrentRuns
  /\ Cardinality(ObservationRuns) <= MaxConcurrentObservations
  /\ verificationCount <= MaxConcurrentVerifications

(* Taking over never hits a driver that is still driving: as long as a      *)
(* driver is inside its operation, no reclaim, acquisition or relinquish of *)
(* anybody else leaves the row active under another lease or under none.    *)
(* Only settling the row - a stop, or a journalled outcome - ends its hold. *)
LiveLeaseNeverStolen ==
  [][\A d \in Drivers :
       /\ pc[d] \in DrivingPcs /\ pc'[d] \in DrivingPcs
       /\ Active(target[d]) /\ row[target[d]].lease = d[1]
       /\ row'[target[d]].state \in {"leased", "running"}
       => row'[target[d]].lease = d[1]]_vars

(* Once a stop has returned, no operation of the run is active and none     *)
(* becomes active: an acquisition is either before the write of the run     *)
(* document, and listed, or after it, and refused.                          *)
StopReleasesRun ==
  \A r \in Runs : stop[r] = "done" =>
    \A o \in Ops : RunOf[o] = r => ~Active(o)

(* While a tool runs under a granted permit, nothing but the attempt it     *)
(* belongs to may hold a lease in that run - also after that attempt's      *)
(* controller died and its row was reclaimed.  That attempt is still under  *)
(* the controller that asked for the permit; its identity may have been     *)
(* raised meanwhile, because ReserveAttemptIdentity does not ask whose the  *)
(* row is, and a driver whose row was settled and leased anew still calls   *)
(* it.                                                                      *)
PermitFencesRun ==
  \A t \in Granted : \A o \in Ops :
    Carries(o) /\ RunOf[o] = RunOf[permit[t].op] =>
      /\ o = permit[t].op
      /\ row[o].state = "running"
      /\ row[o].lease = permit[t].ctl
      /\ row[o].identity >= permit[t].att

(* An operation is never started beyond its attempt budget, whichever       *)
(* drivers share it and however often attempts are given back.              *)
AttemptsWithinBudget == \A o \in Ops : row[o].attempt <= MaxAttempts[o]

(* A physical attempt identity is never given out twice: starting always    *)
(* moves past every identity used before, and giving an attempt back does   *)
(* not move it.                                                             *)
IdentityNeverReused ==
  [][\A o \in Ops :
       /\ row'[o].identity >= row[o].identity
       /\ row[o].state # "running" /\ row'[o].state = "running" =>
            row'[o].identity > row[o].identity]_vars

(* A lease nobody holds - its process died, or its driver returned without  *)
(* managing to give it back - is not kept forever: it is given up or taken  *)
(* over, provided every process that stays alive keeps scanning.            *)
OrphanReleased ==
  (\A p \in Procs : []<>(p \notin alive
      \/ \E d \in Drivers : d[1] = p /\ pc[d] = "scan"))
  => \A o \in Ops :
       (Carries(o) /\ ~Holds(row[o].lease, o))
         ~> (~Carries(o) \/ Holds(row[o].lease, o) \/ alive = {})
=============================================================================
