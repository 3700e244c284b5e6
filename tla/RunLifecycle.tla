----------------------------- MODULE RunLifecycle -----------------------------
(***************************************************************************)
(* The two durable representations of one run's disposition - the journal, *)
(* which is the authority, and the run row, which is a cache of it - under *)
(* concurrent reconciliation passes and operator stops.                    *)
(*                                                                         *)
(* A pass replays the run, decides a disposition and records it            *)
(* (recordDisposition, runtime/disposition.go): re-read the row, append    *)
(* the event, put the row, re-read the row.  A stop (CancelRun,            *)
(* runtime/agent_binding.go) appends run.cancelled and puts the row.       *)
(* Nothing holds these writes together, and every one of them can fail.    *)
(*                                                                         *)
(* Runs do not interact here, so the module is about one.  Reasons are not *)
(* represented: a disposition may be journalled again because its reason   *)
(* changed.  The run's structural invariants hold (a run that violates     *)
(* them is failed by every pass).                                          *)
(***************************************************************************)

CONSTANTS Passes,   \* the processes reconciling the run
          Stops     \* the operators stopping it

Dispositions == {"active", "waiting", "completed", "failed", "cancelled"}
Terminal == {"completed", "failed", "cancelled"}

VARIABLES
  runRow,    \* the disposition in the run row
  said,      \* what replaying the journal makes of each disposition the row
             \* can have: Reduce starts from the row
  merged,    \* the journal holds the observation that the candidate merged
  paused,    \* the newest pause event is run.paused
  pc,        \* where a pass is
  state,     \* what it holds in memory
  stop       \* where a stop is

durable == <<runRow, said, merged, paused>>
vars == <<durable, pc, state, stop>>

(* "next": between two passes of one Reconcile call. *)
PassPcs == {"idle", "row", "loaded", "recheck", "append", "put", "adopt",
            "recorded", "next", "failed"}
StopPcs == {"idle", "append", "put", "done", "refused"}

(* runState: the row's disposition, the snapshot's, whether the replayed    *)
(* projection is merged; the disposition being recorded, and whether it is  *)
(* the pass's second.                                                       *)
PassState ==
  [run : Dispositions, snapshot : Dispositions, merged : BOOLEAN,
   want : Dispositions, again : BOOLEAN]
Forgotten ==
  [run |-> "active", snapshot |-> "active", merged |-> FALSE,
   want |-> "active", again |-> FALSE]

Init ==
  /\ runRow = "active"
  /\ said = [d \in Dispositions |-> d]
  /\ merged = FALSE
  /\ paused = FALSE
  /\ pc = [p \in Passes |-> "idle"]
  /\ state = [p \in Passes |-> Forgotten]
  /\ stop = [s \in Stops |-> "idle"]

-----------------------------------------------------------------------------
(* The journal and the row. *)

(* Mutant: only a wait respects a cancellation. *)
ReduceFailure(d, event) ==
  IF d = "cancelled" /\ event = "waiting" THEN d ELSE event

(* One disposition event, named for what it records.  The newest wins, but  *)
(* a wait or a failure does not replace a cancellation.                     *)
Reduce(d, event) ==
  IF d = "cancelled" /\ event \in {"waiting", "failed"} THEN d ELSE event

Replay == said[runRow]

Append(event) == said' = [d \in Dispositions |-> Reduce(said[d], event)]

(* Mutant: the statement without its condition. *)
PutRunAlways(disposition) == runRow' = disposition

(* The statement refuses, silently, to replace a cancelled row. *)
PutRun(disposition) ==
  runRow' = IF runRow = "cancelled" THEN runRow ELSE disposition

-----------------------------------------------------------------------------
(* A pass (EngineeringRuntime.Reconcile). *)

Go(p, there) == pc' = [pc EXCEPT ![p] = there]
Remember(p, memory) == state' = [state EXCEPT ![p] = memory]

(* load reads the row and the events in two reads. *)
LoadRow(p) ==
  /\ pc[p] \in {"idle", "next"}
  /\ Remember(p, [Forgotten EXCEPT !.run = runRow])
  /\ Go(p, "row")
  /\ UNCHANGED <<durable, stop>>

(* A paused run is returned unchanged. *)
LoadEvents(p) ==
  /\ pc[p] = "row"
  /\ IF paused
       THEN Go(p, "idle") /\ Remember(p, Forgotten)
       ELSE /\ Go(p, "loaded")
            /\ Remember(p, [state[p] EXCEPT !.snapshot = said[state[p].run],
                                           !.merged = merged])
  /\ UNCHANGED <<durable, stop>>

(* Mutants: a cancellation in replay, or a merge, does not decide anything. *)
conditionsWithoutStop(p) ==
  IF state[p].merged THEN {"completed"} ELSE {"active", "waiting", "failed"}

conditionsWithoutMerge(p) ==
  IF state[p].snapshot = "cancelled" THEN {"cancelled"}
  ELSE {"active", "waiting", "failed"}

(* Mutant: a run with nothing left to do counts as completed. *)
conditionsWithoutProof(p) ==
  IF state[p].merged THEN {"completed"}
  ELSE IF state[p].snapshot = "cancelled" THEN {"cancelled"}
  ELSE {"active", "waiting", "failed", "completed"}

(* A merge completes the run, a journalled cancellation cancels it, and     *)
(* only then does anything else count: budgets, refusals, waits, work.      *)
conditions(p) ==
  IF state[p].merged THEN {"completed"}
  ELSE IF state[p].snapshot = "cancelled" THEN {"cancelled"}
  ELSE {"active", "waiting", "failed"}

(* The pass settles the run, or works on and loads again.  A cancellation   *)
(* it read from replay is only put: replay has it already.                  *)
Settle(p) ==
  /\ pc[p] = "loaded"
  /\ \/ "active" \in conditions(p) /\ Go(p, "next") /\ Remember(p, Forgotten)
     \/ \E d \in conditions(p) \ {"active"} :
          /\ Remember(p, [state[p] EXCEPT !.want = d])
          /\ Go(p, IF d = "cancelled" THEN "put" ELSE "recheck")
  /\ UNCHANGED <<durable, stop>>

(* A call that used up its passes loads once more and waits, whatever the   *)
(* conditions are.                                                          *)
PassLimit(p) ==
  /\ pc[p] = "next"
  /\ Remember(p, [run |-> runRow, snapshot |-> Replay, merged |-> merged,
                  want |-> "waiting", again |-> TRUE])
  /\ Go(p, "recheck")
  /\ UNCHANGED <<durable, stop>>

(* A run that was stopped meanwhile is not settled onto anything else. *)
Recheck(p) ==
  /\ pc[p] = "recheck"
  /\ IF runRow = "cancelled"
       THEN /\ Remember(p, [state[p] EXCEPT !.run = "cancelled",
                                           !.snapshot = "cancelled"])
            /\ Go(p, "recorded")
       ELSE Go(p, "append") /\ UNCHANGED state
  /\ UNCHANGED <<durable, stop>>

(* The event is appended when the disposition or its reason changed. *)
JournalDisposition(p) ==
  LET d == state[p].want IN
  /\ pc[p] = "append"
  /\ \/ Append(d)
     \/ state[p].snapshot = d /\ UNCHANGED said
  /\ Remember(p, [state[p] EXCEPT !.snapshot = d])
  /\ Go(p, "put")
  /\ UNCHANGED <<runRow, merged, paused, stop>>

PutDisposition(p) ==
  LET d == state[p].want IN
  /\ pc[p] = "put"
  /\ PutRun(d)
  /\ Remember(p, [state[p] EXCEPT !.run = d])
  /\ Go(p, "adopt")
  /\ UNCHANGED <<said, merged, paused, stop>>

(* Adopt what the row actually says. *)
Adopt(p) ==
  /\ pc[p] = "adopt"
  /\ Remember(p, IF runRow = "cancelled"
                   THEN [state[p] EXCEPT !.run = "cancelled",
                                         !.snapshot = "cancelled"]
                   ELSE state[p])
  /\ Go(p, "recorded")
  /\ UNCHANGED <<durable, stop>>

(* A wait is recorded before the operation that observes it. *)
Observing(p) ==
  pc[p] = "recorded" /\ state[p].want = "waiting" /\ ~state[p].again

(* The call returns, or its observation made progress and it loads again. *)
Return(p) ==
  /\ pc[p] = "recorded"
  /\ \/ Go(p, "idle")
     \/ Observing(p) /\ Go(p, "next")
  /\ Remember(p, Forgotten)
  /\ UNCHANGED <<durable, stop>>

(* Without progress it settles once more on the state it loaded. *)
SettleAgain(p) ==
  /\ Observing(p)
  /\ \E d \in {"waiting", "failed"} :
       Remember(p, [state[p] EXCEPT !.want = d, !.again = TRUE])
  /\ Go(p, "recheck")
  /\ UNCHANGED <<durable, stop>>

(* The operation a pass runs - any, or an observation while it waits - may  *)
(* journal that the candidate merged; the pass then loads again.            *)
ObserveMerge(p) ==
  /\ ~merged
  /\ \/ pc[p] = "loaded" /\ "active" \in conditions(p)
     \/ Observing(p)
  /\ merged' = TRUE
  /\ Go(p, "next") /\ Remember(p, Forgotten)
  /\ UNCHANGED <<runRow, said, paused, stop>>

(* A store error, or the death of the process, ends a pass anywhere. *)
PassFails(p) ==
  /\ pc[p] \notin {"idle", "failed"}
  /\ Go(p, "failed") /\ Remember(p, Forgotten)
  /\ UNCHANGED <<durable, stop>>

Restart(p) ==
  /\ pc[p] = "failed"
  /\ Go(p, "idle")
  /\ UNCHANGED <<durable, state, stop>>

-----------------------------------------------------------------------------
(* A stop (CancelRun). *)

(* A run whose row is cancelled is only swept again. *)
StopRead(s) ==
  /\ stop[s] \in {"idle", "done", "refused"}
  /\ stop' = [stop EXCEPT ![s] = IF runRow = "cancelled" THEN "done" ELSE "append"]
  /\ UNCHANGED <<durable, pc, state>>

(* The append refuses a run whose replay completed or failed. *)
StopAppend(s) ==
  /\ stop[s] = "append"
  /\ IF Replay \in {"completed", "failed"}
       THEN stop' = [stop EXCEPT ![s] = "refused"] /\ UNCHANGED said
       ELSE stop' = [stop EXCEPT ![s] = "put"] /\ Append("cancelled")
  /\ UNCHANGED <<runRow, merged, paused, pc, state>>

StopPut(s) ==
  /\ stop[s] = "put"
  /\ PutRun("cancelled")
  /\ stop' = [stop EXCEPT ![s] = "done"]
  /\ UNCHANGED <<said, merged, paused, pc, state>>

StopBreaks(s) ==
  /\ stop[s] \in {"append", "put"}
  /\ stop' = [stop EXCEPT ![s] = "idle"]
  /\ UNCHANGED <<durable, pc, state>>

-----------------------------------------------------------------------------
(* Mutant: a pause is folded like a disposition. *)
ChangePauseDisposition ==
  /\ Replay \notin Terminal
  /\ paused' = ~paused
  /\ Append(IF paused THEN "active" ELSE "paused")
  /\ UNCHANGED <<runRow, merged, pc, state, stop>>

(* changePause: refused on a run that replays as terminal, idempotent. *)
ChangePause ==
  /\ Replay \notin Terminal
  /\ paused' = ~paused
  /\ UNCHANGED <<runRow, said, merged, pc, state, stop>>

PassMoves(p) ==
  \/ LoadRow(p) \/ LoadEvents(p) \/ Settle(p) \/ PassLimit(p) \/ Recheck(p)
  \/ JournalDisposition(p) \/ PutDisposition(p) \/ Adopt(p)
  \/ Return(p) \/ SettleAgain(p) \/ Restart(p)

Next ==
  \/ \E p \in Passes : PassMoves(p) \/ ObserveMerge(p) \/ PassFails(p)
  \/ \E s \in Stops : StopRead(s) \/ StopAppend(s) \/ StopPut(s) \/ StopBreaks(s)
  \/ ChangePause

Spec == Init /\ [][Next]_vars

(* The supervisor starts passes of a run as long as its row is open         *)
(* (ActiveRuns); a pass that was started comes to an end, and the store     *)
(* does not go on failing for ever.                                         *)
SupervisedMoves(p) == PassMoves(p) /\ (pc[p] = "idle" => runRow \notin Terminal)

FairSpec ==
  /\ Spec
  /\ \A p \in Passes : WF_vars(SupervisedMoves(p))
  /\ \A p \in Passes : <>[](pc[p] # "failed")

-----------------------------------------------------------------------------
(* Type invariant: every disposition, place and memory is one of its kind;  *)
(* in particular replay always yields a disposition.                        *)
TypeOK ==
  /\ runRow \in Dispositions
  /\ said \in [Dispositions -> Dispositions]
  /\ merged \in BOOLEAN /\ paused \in BOOLEAN
  /\ pc \in [Passes -> PassPcs]
  /\ state \in [Passes -> PassState]
  /\ stop \in [Stops -> StopPcs]

(* A stop that returned holds: whatever passes that loaded the run before   *)
(* it, or between its two writes, go on to record, the row stays cancelled. *)
StopHolds == \A s \in Stops : stop[s] = "done" => runRow = "cancelled"

(* Replay stops saying cancelled of a stopped run only where the candidate  *)
(* really merged: no wait, budget or refusal a pass decided on earlier      *)
(* reports an operator's stop as anything else.                             *)
StopYieldsOnlyToMerge ==
  runRow = "cancelled" /\ Replay # "cancelled" => merged

(* Seen through its row, the merge and the stops that returned, the run     *)
(* keeps the promise of RunPromise: nothing a pass or a stop does between   *)
(* its reads and its writes shows as anything but one of its steps.         *)
Promise ==
  INSTANCE RunPromise WITH
    disposition <- runRow,
    acknowledged <- {s \in Stops : stop[s] = "done"}
KeepsPromise == Promise!Spec

(* A stop that died between its two writes does not leave the run open: the *)
(* next passes replay the cancellation and put it in the row, unless the    *)
(* run is paused, which ends every pass.                                    *)
CrashedStopFinished ==
  (Replay = "cancelled") ~> (runRow \in Terminal \/ paused)

(* Once the merge is journalled the run is over for good: whatever passes   *)
(* that loaded it earlier still record, they do not reopen it for ever.     *)
MergeEndsRun == [](merged /\ []~paused => <>[](runRow \in Terminal))
=============================================================================
