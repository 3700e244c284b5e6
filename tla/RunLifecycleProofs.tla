-------------------------- MODULE RunLifecycleProofs --------------------------
(***************************************************************************)
(* Theorems about RunLifecycle for any number of passes and of stops.      *)
(***************************************************************************)
EXTENDS RunLifecycle, TLAPS

(* What a pass works with is never ahead of the journal: a merge it saw is  *)
(* journalled, it records a completion only after it saw one, and it never  *)
(* journals that a run is active.  So a replay that starts from a cancelled *)
(* row leaves it only through run.completed, and only after the merge.      *)
MergeSeen ==
  \A p \in Passes :
    /\ state[p].merged => merged
    /\ state[p].want = "completed" => merged
NeverActivates ==
  \A p \in Passes : pc[p] \in {"recheck", "append", "put"} => state[p].want # "active"
ReplayHolds == said["cancelled"] # "cancelled" => merged

StopInv == TypeOK /\ StopHolds /\ MergeSeen /\ NeverActivates /\ ReplayHolds

-----------------------------------------------------------------------------
(* A pass that starts remembers nothing but the row it read. *)
LEMMA NewPass ==
  ASSUME NEW d \in Dispositions
  PROVE  /\ Forgotten \in PassState
         /\ Forgotten.merged = FALSE /\ Forgotten.want = "active"
         /\ [Forgotten EXCEPT !.run = d] \in PassState
         /\ [Forgotten EXCEPT !.run = d].merged = FALSE
         /\ [Forgotten EXCEPT !.run = d].want = "active"
<1>1. Forgotten \in PassState /\ Forgotten.merged = FALSE /\ Forgotten.want = "active"
  BY DEF PassState, Forgotten, Dispositions
<1>2. \A m \in PassState :
        /\ [m EXCEPT !.run = d] \in PassState
        /\ [m EXCEPT !.run = d].merged = m.merged
        /\ [m EXCEPT !.run = d].want = m.want
  BY DEF PassState
<1>3. QED
  BY <1>1, <1>2

-----------------------------------------------------------------------------
(* The journal and the row. *)

(* A disposition event keeps what replay says typed, and takes a replay     *)
(* that starts from a cancelled row away from cancelled only when it is a   *)
(* completion.                                                              *)
LEMMA Appended ==
  ASSUME TypeOK, NEW event \in Dispositions \ {"active"}, Append(event)
  PROVE  /\ said' \in [Dispositions -> Dispositions]
         /\ said["cancelled"] = "cancelled" /\ event # "completed"
              => said'["cancelled"] = "cancelled"
  BY DEF TypeOK, Append, Reduce, Dispositions

(* The row keeps its type and its cancellation. *)
LEMMA PutKeeps ==
  ASSUME TypeOK, NEW d \in Dispositions, PutRun(d)
  PROVE  /\ runRow' \in Dispositions
         /\ runRow = "cancelled" => runRow' = "cancelled"
  BY DEF TypeOK, PutRun

(* A step of one pass preserves the invariant when what it remembers is     *)
(* backed by the journal and what it writes keeps a cancellation.           *)
LEMMA PassStep ==
  ASSUME StopInv,
         NEW p \in Passes, NEW there \in PassPcs, NEW m \in PassState,
         Go(p, there), Remember(p, m),
         m.merged => merged', m.want = "completed" => merged',
         there \in {"recheck", "append", "put"} => m.want # "active",
         merged => merged', merged' \in BOOLEAN, paused' \in BOOLEAN,
         runRow' \in Dispositions,
         runRow = "cancelled" => runRow' = "cancelled",
         said' \in [Dispositions -> Dispositions], ReplayHolds',
         stop' = stop
  PROVE  StopInv'
<1>1. TypeOK'
  BY DEF StopInv, TypeOK, Go, Remember
<1>2. StopHolds'
  BY DEF StopInv, StopHolds
<1>3. MergeSeen'
  BY DEF StopInv, TypeOK, MergeSeen, Remember
<1>4. NeverActivates'
  BY DEF StopInv, TypeOK, NeverActivates, Remember, Go
<1>5. QED
  BY <1>1, <1>2, <1>3, <1>4 DEF StopInv

(* The invariant holds of a run that was just claimed. *)
LEMMA StopInit == Init => StopInv
<1>1. SUFFICES ASSUME Init PROVE StopInv
  OBVIOUS
<1>2. Forgotten \in PassState /\ Forgotten.merged = FALSE /\ Forgotten.want = "active"
  BY <1>1, NewPass DEF Init, Dispositions
<1>3. TypeOK
  BY <1>1, <1>2 DEF Init, TypeOK, Dispositions, PassPcs, StopPcs
<1>4. StopHolds /\ MergeSeen /\ NeverActivates /\ ReplayHolds
  BY <1>1, <1>2 DEF Init, StopHolds, MergeSeen, NeverActivates, ReplayHolds, Dispositions
<1>5. QED
  BY <1>3, <1>4 DEF StopInv

-----------------------------------------------------------------------------
(* Every action of a pass preserves the invariant. *)
LEMMA PassesPreserve ==
  ASSUME StopInv, NEW p \in Passes,
         PassMoves(p) \/ ObserveMerge(p) \/ PassFails(p)
  PROVE  StopInv'
<1> USE DEF StopInv
<1>0. /\ TypeOK /\ ReplayHolds /\ state[p] \in PassState
      /\ state[p].merged => merged
      /\ state[p].want = "completed" => merged
      /\ pc[p] \in {"recheck", "append", "put"} => state[p].want # "active"
      /\ runRow \in Dispositions /\ said \in [Dispositions -> Dispositions]
      /\ merged \in BOOLEAN /\ paused \in BOOLEAN
  BY DEF TypeOK, MergeSeen, NeverActivates
<1>1. /\ state[p].run \in Dispositions /\ state[p].want \in Dispositions
      /\ state[p].merged \in BOOLEAN
  BY <1>0 DEF PassState
<1>2. Forgotten \in PassState /\ Forgotten.merged = FALSE /\ Forgotten.want = "active"
  BY <1>0, NewPass
<1>3. CASE LoadRow(p)
  <2> DEFINE m == [Forgotten EXCEPT !.run = runRow]
  <2>1. m \in PassState /\ m.merged = FALSE /\ m.want = "active"
    BY <1>0, NewPass
  <2>2. Remember(p, m) /\ Go(p, "row") /\ UNCHANGED <<durable, stop>>
    BY <1>3 DEF LoadRow
  <2> HIDE DEF m
  <2>3. QED
    BY <1>0, <2>1, <2>2, PassStep DEF durable, ReplayHolds, PassPcs
<1>4. CASE LoadEvents(p)
  <2>1. CASE paused
    BY <1>0, <1>2, <1>4, <2>1, PassStep DEF LoadEvents, durable, ReplayHolds, PassPcs
  <2>2. CASE ~paused
    <3> DEFINE m == [state[p] EXCEPT !.snapshot = said[state[p].run],
                                     !.merged = merged]
    <3>1. said[state[p].run] \in Dispositions
      BY <1>0, <1>1
    <3>2. m \in PassState /\ m.merged = merged /\ m.want = state[p].want
      BY <1>0, <3>1 DEF PassState
    <3>3. Remember(p, m) /\ Go(p, "loaded") /\ UNCHANGED <<durable, stop>>
      BY <1>4, <2>2 DEF LoadEvents
    <3> HIDE DEF m
    <3>4. QED
      BY <1>0, <3>2, <3>3, PassStep DEF durable, ReplayHolds, PassPcs
  <2>3. QED
    BY <1>0, <2>1, <2>2
<1>5. CASE Settle(p)
  <2>1. CASE Go(p, "next") /\ Remember(p, Forgotten)
    BY <1>0, <1>2, <1>5, <2>1, PassStep DEF Settle, durable, ReplayHolds, PassPcs
  <2>2. ASSUME NEW d \in conditions(p) \ {"active"},
               Remember(p, [state[p] EXCEPT !.want = d]),
               Go(p, IF d = "cancelled" THEN "put" ELSE "recheck")
        PROVE  StopInv'
    <3> DEFINE m == [state[p] EXCEPT !.want = d]
               there == IF d = "cancelled" THEN "put" ELSE "recheck"
    <3>1. d \in Dispositions /\ (d = "completed" => state[p].merged)
      BY <2>2 DEF conditions, Dispositions
    <3>2. m \in PassState /\ m.merged = state[p].merged /\ m.want = d
      BY <1>0, <3>1 DEF PassState
    <3>3. Remember(p, m) /\ Go(p, there) /\ UNCHANGED <<durable, stop>>
      BY <1>5, <2>2 DEF Settle
    <3>4. there \in PassPcs
      BY DEF PassPcs
    <3> HIDE DEF m, there
    <3>5. QED
      BY <1>0, <2>2, <3>1, <3>2, <3>3, <3>4, PassStep DEF durable, ReplayHolds
  <2>3. QED
    BY <1>5, <2>1, <2>2 DEF Settle
<1>6. CASE PassLimit(p)
  <2> DEFINE m == [run |-> runRow, snapshot |-> Replay, merged |-> merged,
                   want |-> "waiting", again |-> TRUE]
  <2>1. m \in PassState /\ m.merged = merged /\ m.want = "waiting"
    BY <1>0 DEF PassState, Replay, Dispositions
  <2>2. Remember(p, m) /\ Go(p, "recheck") /\ UNCHANGED <<durable, stop>>
    BY <1>6 DEF PassLimit
  <2> HIDE DEF m
  <2>3. QED
    BY <1>0, <2>1, <2>2, PassStep DEF durable, ReplayHolds, PassPcs
<1> DEFINE stopped == [state[p] EXCEPT !.run = "cancelled", !.snapshot = "cancelled"]
<1>7. stopped \in PassState /\ stopped.merged = state[p].merged /\ stopped.want = state[p].want
  BY <1>0 DEF PassState, Dispositions
<1>8. CASE Recheck(p)
  <2>1. CASE runRow = "cancelled"
    <3>1. Remember(p, stopped) /\ Go(p, "recorded") /\ UNCHANGED <<durable, stop>>
      BY <1>8, <2>1 DEF Recheck
    <3> HIDE DEF stopped
    <3>2. QED
      BY <1>0, <1>7, <3>1, PassStep DEF durable, ReplayHolds, PassPcs
  <2>2. CASE runRow # "cancelled"
    <3>1. Remember(p, state[p]) /\ Go(p, "append") /\ UNCHANGED <<durable, stop>>
      BY <1>0, <1>8, <2>2 DEF Recheck, Remember, TypeOK
    <3>2. pc[p] \in {"recheck", "append"}
      BY <1>8 DEF Recheck
    <3>3. QED
      BY <1>0, <3>1, <3>2, PassStep DEF durable, ReplayHolds, PassPcs
  <2>3. QED
    BY <2>1, <2>2
<1>9. CASE JournalDisposition(p)
  <2> DEFINE m == [state[p] EXCEPT !.snapshot = state[p].want]
  <2>1. m \in PassState /\ m.merged = state[p].merged /\ m.want = state[p].want
    BY <1>0, <1>1 DEF PassState
  <2>2. /\ Remember(p, m) /\ Go(p, "put") /\ UNCHANGED <<runRow, merged, paused, stop>>
        /\ Append(state[p].want) \/ said' = said
        /\ state[p].want # "active"
    BY <1>0, <1>9 DEF JournalDisposition
  <2>3. said' \in [Dispositions -> Dispositions] /\ ReplayHolds'
    <3>1. CASE Append(state[p].want)
      BY <1>0, <1>1, <2>2, <3>1, Appended DEF ReplayHolds
    <3>2. CASE said' = said
      BY <1>0, <2>2, <3>2 DEF ReplayHolds
    <3>3. QED
      BY <2>2, <3>1, <3>2
  <2> HIDE DEF m
  <2>4. QED
    BY <1>0, <2>1, <2>2, <2>3, PassStep DEF PassPcs
<1>10. CASE PutDisposition(p)
  <2> DEFINE m == [state[p] EXCEPT !.run = state[p].want]
  <2>1. m \in PassState /\ m.merged = state[p].merged /\ m.want = state[p].want
    BY <1>0, <1>1 DEF PassState
  <2>2. /\ Remember(p, m) /\ Go(p, "adopt") /\ UNCHANGED <<said, merged, paused, stop>>
        /\ PutRun(state[p].want)
    BY <1>10 DEF PutDisposition
  <2>3. runRow' \in Dispositions /\ (runRow = "cancelled" => runRow' = "cancelled")
    BY <1>0, <1>1, <2>2, PutKeeps
  <2> HIDE DEF m
  <2>4. QED
    BY <1>0, <2>1, <2>2, <2>3, PassStep DEF PassPcs, ReplayHolds
<1>11. CASE Adopt(p)
  <2> DEFINE m == IF runRow = "cancelled" THEN stopped ELSE state[p]
  <2>1. Remember(p, m) /\ Go(p, "recorded") /\ UNCHANGED <<durable, stop>>
    BY <1>11 DEF Adopt
  <2>2. m \in PassState /\ m.merged = state[p].merged /\ m.want = state[p].want
    <3> HIDE DEF stopped
    <3>1. QED
      BY <1>0, <1>7
  <2> HIDE DEF m
  <2>3. QED
    BY <1>0, <2>1, <2>2, PassStep DEF durable, ReplayHolds, PassPcs
<1>12. CASE Return(p)
  BY <1>0, <1>2, <1>12, PassStep DEF Return, durable, ReplayHolds, PassPcs
<1>13. CASE SettleAgain(p)
  <2>1. PICK d \in {"waiting", "failed"} :
          Remember(p, [state[p] EXCEPT !.want = d, !.again = TRUE])
    BY <1>13 DEF SettleAgain
  <2> DEFINE m == [state[p] EXCEPT !.want = d, !.again = TRUE]
  <2>2. m \in PassState /\ m.merged = state[p].merged /\ m.want = d
    BY <1>0 DEF PassState, Dispositions
  <2>3. Remember(p, m) /\ Go(p, "recheck") /\ UNCHANGED <<durable, stop>>
    BY <1>13, <2>1 DEF SettleAgain
  <2> HIDE DEF m
  <2>4. QED
    BY <1>0, <2>2, <2>3, PassStep DEF durable, ReplayHolds, PassPcs
<1>14. CASE Restart(p)
  <2>1. Remember(p, state[p]) /\ Go(p, "idle") /\ UNCHANGED <<durable, stop>>
    BY <1>0, <1>14 DEF Restart, Remember, TypeOK
  <2>2. QED
    BY <1>0, <2>1, PassStep DEF durable, ReplayHolds, PassPcs
<1>15. CASE ObserveMerge(p)
  BY <1>0, <1>2, <1>15, PassStep DEF ObserveMerge, ReplayHolds, PassPcs
<1>16. CASE PassFails(p)
  BY <1>0, <1>2, <1>16, PassStep DEF PassFails, durable, ReplayHolds, PassPcs
<1>17. QED
  BY <1>3, <1>4, <1>5, <1>6, <1>8, <1>9, <1>10, <1>11, <1>12, <1>13, <1>14,
     <1>15, <1>16 DEF PassMoves

-----------------------------------------------------------------------------
(* A step of one stop preserves the invariant when it arrives at "done"     *)
(* only with a cancelled row.                                               *)
LEMMA StopStep ==
  ASSUME StopInv,
         NEW s \in Stops, NEW there \in StopPcs,
         stop' = [stop EXCEPT ![s] = there],
         there = "done" => runRow' = "cancelled",
         runRow' \in Dispositions,
         runRow = "cancelled" => runRow' = "cancelled",
         said' \in [Dispositions -> Dispositions], ReplayHolds',
         UNCHANGED <<merged, paused, pc, state>>
  PROVE  StopInv'
<1>1. TypeOK'
  BY DEF StopInv, TypeOK
<1>2. StopHolds'
  BY DEF StopInv, TypeOK, StopHolds
<1>3. MergeSeen' /\ NeverActivates'
  BY DEF StopInv, MergeSeen, NeverActivates
<1>4. QED
  BY <1>1, <1>2, <1>3 DEF StopInv

(* Every action of a stop preserves the invariant. *)
LEMMA StopsPreserve ==
  ASSUME StopInv, NEW s \in Stops,
         StopRead(s) \/ StopAppend(s) \/ StopPut(s) \/ StopBreaks(s)
  PROVE  StopInv'
<1>0. /\ TypeOK /\ ReplayHolds
      /\ runRow \in Dispositions /\ said \in [Dispositions -> Dispositions]
  BY DEF StopInv, TypeOK
<1>1. CASE StopRead(s)
  <2>1. PICK there \in StopPcs :
          /\ stop' = [stop EXCEPT ![s] = there]
          /\ there = "done" => runRow = "cancelled"
    BY <1>1 DEF StopRead, StopPcs
  <2>2. QED
    BY <1>0, <1>1, <2>1, StopStep DEF StopRead, durable, ReplayHolds
<1>2. CASE StopAppend(s)
  <2>1. CASE stop' = [stop EXCEPT ![s] = "refused"] /\ said' = said
    BY <1>0, <1>2, <2>1, StopStep DEF StopAppend, ReplayHolds, StopPcs
  <2>2. CASE stop' = [stop EXCEPT ![s] = "put"] /\ Append("cancelled")
    <3>1. "cancelled" \in Dispositions \ {"active"}
      BY DEF Dispositions
    <3>2. said' \in [Dispositions -> Dispositions] /\ ReplayHolds'
      BY <1>0, <1>2, <2>2, <3>1, Appended DEF StopAppend, ReplayHolds
    <3>3. QED
      BY <1>0, <1>2, <2>2, <3>2, StopStep DEF StopAppend, StopPcs
  <2>3. QED
    BY <1>2, <2>1, <2>2 DEF StopAppend
<1>3. CASE StopPut(s)
  <2>1. runRow' = "cancelled" /\ "cancelled" \in Dispositions
    BY <1>3 DEF StopPut, PutRun, Dispositions
  <2>2. QED
    BY <1>0, <1>3, <2>1, StopStep DEF StopPut, ReplayHolds, StopPcs
<1>4. CASE StopBreaks(s)
  BY <1>0, <1>4, StopStep DEF StopBreaks, durable, ReplayHolds, StopPcs
<1>5. QED
  BY <1>1, <1>2, <1>3, <1>4

(* So does every step. *)
LEMMA StopInvPreserved == StopInv /\ [Next]_vars => StopInv'
<1>1. SUFFICES ASSUME StopInv, [Next]_vars PROVE StopInv'
  OBVIOUS
<1>2. ASSUME NEW p \in Passes, PassMoves(p) \/ ObserveMerge(p) \/ PassFails(p)
      PROVE  StopInv'
  BY <1>1, <1>2, PassesPreserve
<1>3. ASSUME NEW s \in Stops,
             StopRead(s) \/ StopAppend(s) \/ StopPut(s) \/ StopBreaks(s)
      PROVE  StopInv'
  BY <1>1, <1>3, StopsPreserve
<1>4. CASE ChangePause
  BY <1>1, <1>4 DEF ChangePause, StopInv, TypeOK, StopHolds, MergeSeen,
     NeverActivates, ReplayHolds
<1>5. CASE UNCHANGED vars
  BY <1>1, <1>5 DEF vars, durable, StopInv, TypeOK, StopHolds, MergeSeen,
     NeverActivates, ReplayHolds
<1>6. QED
  BY <1>1, <1>2, <1>3, <1>4, <1>5 DEF Next

-----------------------------------------------------------------------------
(* The inductive invariant holds of every behaviour: the writes of passes   *)
(* (recordDisposition) and of stops (CancelRun) interleave in any order and *)
(* may fail between any two.                                                *)
THEOREM StopInvariant == Spec => []StopInv
  BY StopInit, StopInvPreserved, PTL DEF Spec

(* Type correctness: whatever is appended, replay yields a disposition.     *)
THEOREM LifecycleTypeCorrect == Spec => []TypeOK
<1>1. StopInv => TypeOK
  BY DEF StopInv
<1>2. QED
  BY <1>1, StopInvariant, PTL

(* A stop that returned holds: CancelRun's row is never written over by a   *)
(* pass that decided on something else before it.                           *)
THEOREM StopHoldsAlways == Spec => []StopHolds
<1>1. StopInv => StopHolds
  BY DEF StopInv
<1>2. QED
  BY <1>1, StopInvariant, PTL

(* Replay of a stopped run says anything but cancelled only after the       *)
(* candidate merged: Reduce keeps a cancellation against waits and          *)
(* failures, and a pass completes a run only when it replayed the merge.    *)
THEOREM StopYieldsOnlyToMergeAlways == Spec => []StopYieldsOnlyToMerge
<1>1. StopInv => StopYieldsOnlyToMerge
  BY DEF StopInv, ReplayHolds, StopYieldsOnlyToMerge, Replay
<1>2. QED
  BY <1>1, StopInvariant, PTL

-----------------------------------------------------------------------------
(* A stop that takes a step is acknowledged, or the stops that were remain  *)
(* the ones that are.                                                       *)
LEMMA Acknowledges ==
  ASSUME StopInv, NEW s \in Stops, NEW there \in StopPcs,
         stop' = [stop EXCEPT ![s] = there]
  PROVE  /\ there = "done" =>
              {t \in Stops : stop[t] = "done"}' = {t \in Stops : stop[t] = "done"} \cup {s}
         /\ there # "done" /\ stop[s] # "done" =>
              {t \in Stops : stop[t] = "done"}' = {t \in Stops : stop[t] = "done"}
  BY DEF StopInv, TypeOK

(* Every step of a pass is a report, a merge or not seen. *)
LEMMA PassesKeepPromise ==
  ASSUME StopInv, NEW p \in Passes,
         PassMoves(p) \/ ObserveMerge(p) \/ PassFails(p)
  PROVE  [Promise!Next]_(Promise!promise)
<1>1. CASE PutDisposition(p)
  <2>1. /\ state[p].want \in {"waiting", "failed", "cancelled", "completed"}
        /\ state[p].want = "completed" => merged
    <3>1. state[p] \in PassState /\ state[p].want # "active"
      BY <1>1 DEF PutDisposition, StopInv, TypeOK, NeverActivates
    <3>2. QED
      BY <3>1 DEF StopInv, MergeSeen, PassState, Dispositions
  <2>2. /\ UNCHANGED <<merged, stop>>
        /\ runRow' = runRow \/ (runRow # "cancelled" /\ runRow' = state[p].want)
    BY <1>1 DEF PutDisposition, PutRun
  <2>3. QED
    BY <2>1, <2>2 DEF Promise!Next, Promise!Report, Promise!promise
<1>2. CASE ObserveMerge(p)
  BY <1>2 DEF ObserveMerge, Promise!Next, Promise!Merge
<1>3. CASE (PassMoves(p) /\ ~PutDisposition(p)) \/ PassFails(p)
  <2>1. UNCHANGED <<runRow, merged, stop>>
    BY <1>3 DEF PassMoves, PassFails, LoadRow, LoadEvents, Settle, PassLimit, Recheck,
       JournalDisposition, Adopt, Return, SettleAgain, Restart, durable
  <2>2. QED
    BY <2>1 DEF Promise!promise
<1>4. QED
  BY <1>1, <1>2, <1>3

(* Every step of a stop is its effect or not seen. *)
LEMMA StopsKeepPromise ==
  ASSUME StopInv, NEW s \in Stops,
         StopRead(s) \/ StopAppend(s) \/ StopPut(s) \/ StopBreaks(s)
  PROVE  [Promise!Next]_(Promise!promise)
<1>1. ASSUME UNCHANGED <<runRow, merged>>, stop[s] # "done",
             NEW there \in StopPcs \ {"done"}, stop' = [stop EXCEPT ![s] = there]
      PROVE  UNCHANGED Promise!promise
  BY <1>1, Acknowledges DEF Promise!promise
<1>2. ASSUME UNCHANGED merged, runRow' = "cancelled", stop' = [stop EXCEPT ![s] = "done"]
      PROVE  Promise!Next
  <2>1. "done" \in StopPcs
    BY DEF StopPcs
  <2>2. Promise!Stop(s)
    BY <1>2, <2>1, Acknowledges DEF Promise!Stop
  <2>3. QED
    BY <2>2 DEF Promise!Next
<1>3. CASE StopRead(s)
  <2>1. CASE runRow = "cancelled"
    BY <1>2, <1>3, <2>1 DEF StopRead, durable
  <2>2. CASE runRow # "cancelled"
    <3>1. stop[s] # "done" /\ "append" \in StopPcs \ {"done"}
      BY <2>2 DEF StopInv, StopHolds, StopPcs
    <3>2. QED
      BY <1>1, <1>3, <2>2, <3>1 DEF StopRead, durable
  <2>3. QED
    BY <2>1, <2>2
<1>4. CASE StopAppend(s)
  BY <1>1, <1>4 DEF StopAppend, StopPcs
<1>5. CASE StopPut(s)
  BY <1>2, <1>5 DEF StopPut, PutRun
<1>6. CASE StopBreaks(s)
  BY <1>1, <1>6 DEF StopBreaks, StopPcs, durable
<1>7. QED
  BY <1>3, <1>4, <1>5, <1>6

(* Passes and stops, whatever their number and the order of their writes,   *)
(* keep the promise of a run: a reader of the row sees a stop that is never *)
(* taken back and a completion only after the merge.                        *)
THEOREM KeepsPromiseAlways == Spec => KeepsPromise
<1>1. Init => Promise!Init
  BY DEF Init, Promise!Init
<1>2. StopInv /\ [Next]_vars => [Promise!Next]_(Promise!promise)
  <2>1. SUFFICES ASSUME StopInv, [Next]_vars PROVE [Promise!Next]_(Promise!promise)
    OBVIOUS
  <2>2. ASSUME NEW p \in Passes, PassMoves(p) \/ ObserveMerge(p) \/ PassFails(p)
        PROVE  [Promise!Next]_(Promise!promise)
    BY <2>1, <2>2, PassesKeepPromise
  <2>3. ASSUME NEW s \in Stops,
               StopRead(s) \/ StopAppend(s) \/ StopPut(s) \/ StopBreaks(s)
        PROVE  [Promise!Next]_(Promise!promise)
    BY <2>1, <2>3, StopsKeepPromise
  <2>4. CASE ChangePause \/ UNCHANGED vars
    BY <2>4 DEF ChangePause, vars, durable, Promise!promise
  <2>5. QED
    BY <2>1, <2>2, <2>3, <2>4 DEF Next
<1>3. QED
  BY <1>1, <1>2, StopInvariant, PTL DEF Spec, KeepsPromise, Promise!Spec
=============================================================================
