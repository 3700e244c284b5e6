---------------------------- MODULE OperationStore ----------------------------
(***************************************************************************)
(* The durable half of the scheduler: the operation rows, run rows, pause  *)
(* facts, verification permits and review claims that every process reads *)
(* and writes through one SQLite database, the outcome the run's journal   *)
(* gives each operation, and the guards that database's statements         *)
(* evaluate atomically (runtime/sqlite_store.go, journal.go,               *)
(* verification_permit_sqlite.go, review_verification_claim.go).           *)
(*                                                                         *)
(* A row's revision counter is represented by what it is for: seen[d] is   *)
(* the operation whose CURRENT revision driver d has read.  Every write of *)
(* a row takes it out of every reader's hands, so "seen[d] = o" is exactly *)
(* "the revision d read is still the row's revision".                      *)
(***************************************************************************)
EXTENDS Naturals, FiniteSets

CONSTANTS
  Runs,                       \* engineering runs
  Ops,                        \* operations, one per (run, idempotency key)
  Procs,                      \* process incarnations: lease owner identities
  Tools,                      \* nested verification tool executions
  Reviews,                    \* independent-review claims
  Drivers,                    \* the <<process, run>> pairs that may drive
  RunOf,                      \* the run of an operation
  Kind,                       \* what the ceilings tell apart about its kind
  DependsOn,                  \* the operations an operation waits for
  MaxAttempts,                \* its attempt budget
  Budgeted,                   \* the operations planned with a wall budget
  Delayed,                    \* those whose failures carry a retry delay
  MaxConcurrentRuns, MaxConcurrentObservations, MaxConcurrentVerifications,
  NoProc, NoOp, NoRun

Kinds == {"work", "verification", "observation"}

ASSUME RunsFinite == IsFiniteSet(Runs)
ASSUME ToolsFinite == IsFiniteSet(Tools)
ASSUME ReviewsFinite == IsFiniteSet(Reviews)
(* A driver is the goroutine in which one process drives one run: a        *)
(* supervisor never starts a second one for a run it is already driving.   *)
ASSUME DriversAssumption == Drivers \subseteq Procs \X Runs
ASSUME OpsAssumption ==
  /\ RunOf \in [Ops -> Runs]
  /\ Kind \in [Ops -> Kinds]
  /\ DependsOn \in [Ops -> SUBSET Ops]
  /\ MaxAttempts \in [Ops -> Nat \ {0}]
ASSUME CeilingsAssumption ==
  /\ MaxConcurrentRuns \in Nat \ {0}
  /\ MaxConcurrentObservations \in Nat \ {0}
  /\ MaxConcurrentVerifications \in Nat \ {0}
ASSUME SentinelsAssumption == 
  NoProc \notin Procs /\ NoOp \notin Ops /\ NoRun \notin Runs

VARIABLES
  row,       \* run_operations: the operation documents
  journal,   \* what replay says of an operation: its newest record
  runRow,    \* runs: the disposition a run's row carries
  paused,    \* runs whose newest pause fact is run.paused
  permit,    \* verification_permits
  claim,     \* review_verification_claims
  seen,      \* the revision reads that are still current
  alive      \* the processes whose owner lock the operating system holds

storeVars == <<row, journal, runRow, paused, permit, claim, seen, alive>>

OperationStates ==
  {"absent", "pending", "leased", "running",
   "succeeded", "failed", "cancelled"}

(* "open" is an operation the journal does not know, planned, or started.   *)
(* A driver that recorded operation.after recorded one of the others.       *)
Outcomes == {"succeeded", "failed", "cancelled"}
JournalStates == {"open"} \cup Outcomes

(* The flags of a row: its lease's ExpiresAt has passed, CancelRequested,   *)
(* RetryNotBefore is in the future, ActiveSince is set, OperationRemaining  *)
(* is zero.                                                                 *)
RowFlags == {"lapsed", "cancel", "deferred", "active", "expired"}

RowDoc ==
  [state : OperationStates,
   lease : Procs \cup {NoProc},   \* the lease's owner
   attempt : Nat,
   identity : Nat,                \* AttemptIdentity
   flags : SUBSET RowFlags]

AbsentRow ==
  [state |-> "absent", lease |-> NoProc, attempt |-> 0, identity |-> 0,
   flags |-> {}]

(* "ended" stands for completed and failed: both terminal, neither sticky   *)
(* in PutRun.                                                              *)
RunStates == {"open", "ended", "cancelled"}
Terminal(r) == runRow[r] # "open"

(* A permit's tool is alive; its ExpiresAt has passed. *)
PermitFlags == {"tool", "lapsed"}

PermitDoc ==
  [state : {"none", "waiting", "granted", "released"},
   op : Ops \cup {NoOp}, att : Nat,  \* Parent: operation and attempt identity
   ctl : Procs \cup {NoProc},        \* ControllerOwner
   flags : SUBSET PermitFlags]

NoPermit ==
  [state |-> "none", op |-> NoOp, att |-> 0, ctl |-> NoProc, flags |-> {}]

(* A claim is absent exactly when it has no ControllerOwner. *)
ClaimDoc ==
  [owner : Procs \cup {NoProc}, run : Runs \cup {NoRun},
   flags : SUBSET {"lapsed"}]
NoClaim == [owner |-> NoProc, run |-> NoRun, flags |-> {}]

StoreInit ==
  /\ row = [o \in Ops |-> AbsentRow]
  /\ journal = [o \in Ops |-> "open"]
  /\ runRow = [r \in Runs |-> "open"]
  /\ paused = {}
  /\ permit = [t \in Tools |-> NoPermit]
  /\ claim = [c \in Reviews |-> NoClaim]
  /\ seen = [d \in Drivers |-> NoOp]
  /\ alive = Procs

-----------------------------------------------------------------------------
(* Reading the rows. *)

Flagged(o, flag) == flag \in row[o].flags
Active(o) == row[o].state \in {"leased", "running"}
Carries(o) == Active(o) /\ row[o].lease # NoProc

(* Mutant: the expiry alone decides, whether or not the owner still lives.  *)
CanAcquireByClock(o) ==
  /\ ~Flagged(o, "deferred")
  /\ row[o].state \notin {"absent", "succeeded", "cancelled"}
  /\ row[o].lease = NoProc \/ Flagged(o, "lapsed")

(* CanAcquire: the row is due, not settled for good, and its lease, if any, *)
(* is both lapsed and held by a process that is provably dead.             *)
CanAcquire(o) ==
  /\ ~Flagged(o, "deferred")
  /\ row[o].state \notin {"absent", "succeeded", "cancelled"}
  /\ row[o].lease = NoProc \/ (row[o].lease \notin alive /\ Flagged(o, "lapsed"))

(* Mutant: the attempt budget is not consulted again. *)
leasableUnbudgeted(o) ==
  /\ \A dep \in DependsOn[o] : row[dep].state = "succeeded"
  /\ ~Flagged(o, "cancel")
  /\ CanAcquire(o)

leasable(o) ==
  /\ \A dep \in DependsOn[o] : row[dep].state = "succeeded"
  /\ row[o].attempt < MaxAttempts[o]
  /\ ~Flagged(o, "cancel")
  /\ CanAcquire(o)

(* PutOperation once it is decided: the row is replaced and its revision   *)
(* moves on, so every other reader's compare-and-set will lose.            *)
Write(o, doc) ==
  /\ row' = [row EXCEPT ![o] = doc]
  /\ seen' = [d \in Drivers |-> IF seen[d] = o THEN NoOp ELSE seen[d]]

(* PutOperation at the revision the driver read. *)
CompareAndSet(d, o, doc) ==
  IF seen[d] = o THEN Write(o, doc) ELSE UNCHANGED <<row, seen>>

-----------------------------------------------------------------------------
(* The counts the acquisition statements take. *)

WorkRuns == {r \in Runs : \E o \in Ops :
               RunOf[o] = r /\ Carries(o) /\ Kind[o] # "observation"}
ObservationRuns == {r \in Runs : \E o \in Ops :
               RunOf[o] = r /\ Carries(o) /\ Kind[o] = "observation"}
VerificationRuns == {r \in Runs : \E o \in Ops :
               RunOf[o] = r /\ Carries(o) /\ Kind[o] = "verification"}
Granted == {t \in Tools : permit[t].state = "granted"}
Claimed == {c \in Reviews : claim[c].owner # NoProc}
ClaimRuns == {r \in Runs : \E c \in Claimed : claim[c].run = r}

verificationCount ==
  Cardinality(VerificationRuns) + Cardinality(Granted) + Cardinality(Claimed)

workCount(r) ==
  Cardinality(WorkRuns \ {r}) + Cardinality(ClaimRuns \ {r})

(* The class ceiling of an acquisition: other runs only. *)
ClassHasRoom(o) ==
  IF Kind[o] = "observation"
    THEN Cardinality(ObservationRuns \ {RunOf[o]}) < MaxConcurrentObservations
    ELSE workCount(RunOf[o]) < MaxConcurrentRuns

VerificationHasRoom == verificationCount < MaxConcurrentVerifications

(* Mutants: the statement without its test of the run's disposition, of its *)
(* other operations, and of the permits still granted in the run.           *)
AcquireAllowedInAnyRun(d, o) ==
  /\ seen[d] = o
  /\ \A other \in Ops \ {o} : RunOf[other] = RunOf[o] => ~Carries(other)
  /\ RunOf[o] \notin paused
  /\ \A t \in Granted : RunOf[permit[t].op] # RunOf[o]
  /\ ClassHasRoom(o)
  /\ Kind[o] = "verification" => VerificationHasRoom

AcquireAllowedBesideOthers(d, o) ==
  /\ seen[d] = o
  /\ ~Terminal(RunOf[o])
  /\ RunOf[o] \notin paused
  /\ \A t \in Granted : RunOf[permit[t].op] # RunOf[o]
  /\ ClassHasRoom(o)
  /\ Kind[o] = "verification" => VerificationHasRoom

AcquireAllowedUnfenced(d, o) ==
  /\ seen[d] = o
  /\ \A other \in Ops \ {o} : RunOf[other] = RunOf[o] => ~Carries(other)
  /\ ~Terminal(RunOf[o])
  /\ RunOf[o] \notin paused
  /\ ClassHasRoom(o)
  /\ Kind[o] = "verification" => VerificationHasRoom

(* The WHERE clause of AcquireOperation, evaluated with its UPDATE. *)
AcquireAllowed(d, o) ==
  /\ seen[d] = o
  /\ \A other \in Ops \ {o} : RunOf[other] = RunOf[o] => ~Carries(other)
  /\ ~Terminal(RunOf[o])
  /\ RunOf[o] \notin paused
  /\ \A t \in Granted : RunOf[permit[t].op] # RunOf[o]
  /\ ClassHasRoom(o)
  /\ Kind[o] = "verification" => VerificationHasRoom
=============================================================================
