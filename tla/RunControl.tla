------------------------------ MODULE RunControl ------------------------------
(***************************************************************************)
(* What an operator does to a run while drivers are inside it: stop it     *)
(* (CancelRun, runtime/agent_binding.go) and pause or unpause it           *)
(* (runtime/pause.go).  Nothing serialises a stop against a driver, so it  *)
(* is modelled write by write: the run document, then, for every operation *)
(* listed as active afterwards, the cancellation request and the finish.   *)
(* The stopping process may die anywhere; the stop may then be repeated.   *)
(* Whether the journal accepts a stop or a pause depends on what replay    *)
(* says of the run, which RunLifecycle tracks; here either may happen.     *)
(***************************************************************************)
EXTENDS OperationStore

CONSTANT OperatedRuns   \* the runs an operator acts on, or whose row a
                        \* stale pass settles
ASSUME OperatedAssumption == OperatedRuns \subseteq Runs

VARIABLES
  stop,       \* how far the newest CancelRun of a run has come
  stopTodo,   \* the active operations it listed and has not settled
  stopAsked   \* the operation it has requested cancellation of

controlVars == <<stop, stopTodo, stopAsked>>
controlRest == <<journal, permit, claim, alive>>

StopStates == {"none", "written", "scan", "done"}

ControlInit ==
  /\ stop = [r \in Runs |-> "none"]
  /\ stopTodo = [r \in Runs |-> {}]
  /\ stopAsked = [r \in Runs |-> NoOp]

(* The run document is written first.  A cancelled run keeps its row and is *)
(* only swept again; a stop the journal refused is StopRefused.             *)
StopWrite(r) ==
  /\ stop[r] \in {"none", "done"}
  /\ runRow' = [runRow EXCEPT ![r] = "cancelled"]
  /\ stop' = [stop EXCEPT ![r] = "written"]
  /\ UNCHANGED <<controlRest, row, seen, paused, stopTodo, stopAsked>>

StopList(r) ==
  /\ stop[r] = "written"
  /\ stop' = [stop EXCEPT ![r] = "scan"]
  /\ stopTodo' = [stopTodo EXCEPT ![r] = {o \in Ops : RunOf[o] = r /\ Active(o)}]
  /\ UNCHANGED <<controlRest, row, seen, runRow, paused, stopAsked>>

(* RequestCancel *)
StopRequest(r, o) ==
  /\ stop[r] = "scan" /\ o \in stopTodo[r] /\ stopAsked[r] = NoOp
  /\ Write(o, [row[o] EXCEPT !.flags = @ \cup {"cancel"}])
  /\ stopAsked' = [stopAsked EXCEPT ![r] = o]
  /\ UNCHANGED <<controlRest, runRow, paused, stop, stopTodo>>

(* What finishAt writes.  It asks only that the row is active: not who owns *)
(* it.  Time the attempt spent waiting for a verification permit is not     *)
(* charged, so an attempt that looked exhausted may turn out not to be.     *)
Finished(o, state, defer, waited) ==
  [row[o] EXCEPT
     !.state = state, !.lease = NoProc,
     !.flags = (@ \ ({"deferred", "active"} \cup
                     IF Flagged(o, "active") /\ waited THEN {"expired"} ELSE {}))
               \cup IF defer THEN {"deferred"} ELSE {}]

(* Finish as cancelled; a driver that finished it first is as good. *)
StopFinish(r) ==
  LET o == stopAsked[r] IN
  /\ stop[r] = "scan" /\ o # NoOp
  /\ IF Active(o)
       THEN \E waited \in BOOLEAN :
              Write(o, Finished(o, "cancelled", FALSE, waited))
       ELSE UNCHANGED <<row, seen>>
  /\ stopTodo' = [stopTodo EXCEPT ![r] = @ \ {o}]
  /\ stopAsked' = [stopAsked EXCEPT ![r] = NoOp]
  /\ UNCHANGED <<controlRest, runRow, paused, stop>>

StopReturn(r) ==
  /\ stop[r] = "scan" /\ stopTodo[r] = {}
  /\ stop' = [stop EXCEPT ![r] = "done"]
  /\ UNCHANGED <<controlRest, row, seen, runRow, paused, stopTodo, stopAsked>>

(* The process running the stop dies, or one of its writes fails. *)
StopBreaks(r) ==
  /\ stop[r] \in {"written", "scan"}
  /\ stop' = [stop EXCEPT ![r] = "none"]
  /\ stopTodo' = [stopTodo EXCEPT ![r] = {}]
  /\ stopAsked' = [stopAsked EXCEPT ![r] = NoOp]
  /\ UNCHANGED <<controlRest, row, seen, runRow, paused>>

(* A refused stop only drops a lease its dead owner left on the run.        *)
(* (Issued by a process that stranded the lease itself it drops that too:   *)
(* the same write as ReclaimPut.)                                           *)
StopRefused(r, o) ==
  /\ runRow[r] # "cancelled" /\ RunOf[o] = r
  /\ Carries(o) /\ CanAcquire(o)
  /\ Write(o, [row[o] EXCEPT !.lease = NoProc])
  /\ UNCHANGED <<controlRest, controlVars, runRow, paused>>

PauseRun(r) ==
  /\ r \notin paused
  /\ paused' = paused \cup {r}
  /\ UNCHANGED <<controlRest, controlVars, row, seen, runRow>>

UnpauseRun(r) ==
  /\ r \in paused
  /\ paused' = paused \ {r}
  /\ UNCHANGED <<controlRest, controlVars, row, seen, runRow>>

(* PutRun by a pass that decided from state it read earlier: it replaces    *)
(* anything but a cancelled row, an ended one included.                     *)
SettleRun(r, disposition) ==
  /\ runRow[r] \notin {"cancelled", disposition}
  /\ runRow' = [runRow EXCEPT ![r] = disposition]
  /\ UNCHANGED <<controlRest, controlVars, row, seen, paused>>

ControlStep ==
  \E r \in OperatedRuns :
    \/ StopWrite(r) \/ StopList(r) \/ StopFinish(r) \/ StopReturn(r)
    \/ StopBreaks(r) \/ PauseRun(r) \/ UnpauseRun(r)
    \/ \E o \in Ops : StopRequest(r, o) \/ StopRefused(r, o)
    \/ \E disposition \in {"open", "ended"} : SettleRun(r, disposition)
=============================================================================
