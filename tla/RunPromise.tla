------------------------------ MODULE RunPromise ------------------------------
(***************************************************************************)
(* What one run promises whoever reads its row, asks for its stop or waits *)
(* for its merge, without saying how: one disposition, which moves freely  *)
(* until an operator's stop takes it for good, which is completed only     *)
(* after a merge, and stops that are acknowledged only once they hold.     *)
(***************************************************************************)
CONSTANT Stops   \* the operators

VARIABLES disposition, merged, acknowledged

promise == <<disposition, merged, acknowledged>>

Init == disposition = "active" /\ merged = FALSE /\ acknowledged = {}

Merge ==
  /\ ~merged
  /\ merged' = TRUE
  /\ UNCHANGED <<disposition, acknowledged>>

(* The run is reported in another disposition. *)
Report ==
  /\ disposition # "cancelled"
  /\ disposition' \in {"waiting", "failed", "cancelled"} \cup
       (IF merged THEN {"completed"} ELSE {})
  /\ UNCHANGED <<merged, acknowledged>>

(* A stop takes effect and is acknowledged. *)
Stop(s) ==
  /\ disposition' = "cancelled"
  /\ acknowledged' = acknowledged \cup {s}
  /\ UNCHANGED merged

Next == Merge \/ Report \/ \E s \in Stops : Stop(s)

Spec == Init /\ [][Next]_promise
=============================================================================
