-------------------------- MODULE VerificationPermits --------------------------
(***************************************************************************)
(* Capacity that is not an operation lease: the permits under which a      *)
(* running attempt's tools verify (runtime/verification_permit.go,         *)
(* verification_permit_sqlite.go) and the claims under which an            *)
(* independent review runs (review_verification_claim.go).  Both share the *)
(* verification ceiling with verification operations, and a review also    *)
(* counts as work.                                                         *)
(*                                                                         *)
(* Every step here is one database transaction.  A tool is a process of    *)
(* its own: it can outlive the attempt, and the controller, that asked for *)
(* its permit.                                                             *)
(***************************************************************************)
EXTENDS OperationStore

permitRest == <<row, journal, runRow, paused, seen, alive>>

(* verificationParentSQL: the attempt the permit belongs to is running under *)
(* the same controller and attempt identity, in a run that is not over.     *)
ParentRuns(o, p, att) ==
  /\ row[o].state = "running"
  /\ row[o].lease = p
  /\ row[o].identity = att
  /\ ~Flagged(o, "cancel")
  /\ ~Terminal(RunOf[o])

ReclaimablePermits ==
  {t \in Tools : /\ permit[t].state \in {"waiting", "granted"}
                 /\ "lapsed" \in permit[t].flags
                 /\ "tool" \notin permit[t].flags}

(* reclaimVerificationPermits, followed by the caller's own transition: a   *)
(* sandbox whose state cannot be established keeps its permit, so any part  *)
(* of the reclaimable permits may be released.                              *)
Reclaimed(gone) ==
  [t \in Tools |-> IF t \in gone THEN [permit[t] EXCEPT !.state = "released"]
                                 ELSE permit[t]]

ReclaimableClaims ==
  {c \in Claimed : "lapsed" \in claim[c].flags /\ claim[c].owner \notin alive}

RequestVerification(p, o, t) ==
  /\ p \in alive
  /\ permit[t].state = "none"
  /\ ParentRuns(o, p, row[o].identity)
  /\ permit' = [permit EXCEPT ![t] =
       [state |-> "waiting", op |-> o, att |-> row[o].identity, ctl |-> p,
        flags |-> {"tool"}]]
  /\ UNCHANGED <<permitRest, claim>>

(* AcquireVerification: reclaim, then grant in a transaction that re-checks *)
(* the parent, the ceiling and that the permit still waits.  The attempt's  *)
(* deadline may also refuse it, which is the action not being taken.        *)
AcquireVerification(t) ==
  /\ permit[t].ctl \in alive
  /\ \E gone \in SUBSET (ReclaimablePermits \ {t}) :
       LET freed == Reclaimed(gone)
           granted == {u \in Tools : freed[u].state = "granted"}
       IN /\ permit[t].state = "waiting"
          /\ ParentRuns(permit[t].op, permit[t].ctl, permit[t].att)
          /\ Cardinality(VerificationRuns) + Cardinality(granted)
               + Cardinality(Claimed) < MaxConcurrentVerifications
          /\ permit' = [freed EXCEPT ![t] = [permit[t] EXCEPT
                         !.state = "granted", !.flags = @ \ {"lapsed"}]]
  /\ UNCHANGED <<permitRest, claim>>

(* ReleaseVerification by the controller that asked: a granted permit is    *)
(* given back only once its tool is known to have ended.                    *)
ReleaseVerification(t) ==
  /\ permit[t].ctl \in alive
  /\ permit[t].state \in {"waiting", "granted"}
  /\ permit[t].state = "granted" => "tool" \notin permit[t].flags
  /\ permit' = [permit EXCEPT ![t].state = "released"]
  /\ UNCHANGED <<permitRest, claim>>

ToolExits(t) ==
  /\ "tool" \in permit[t].flags
  /\ permit' = [permit EXCEPT ![t].flags = @ \ {"tool"}]
  /\ UNCHANGED <<permitRest, claim>>

PermitLapses(t) ==
  /\ permit[t].state \in {"waiting", "granted"}
  /\ "lapsed" \notin permit[t].flags
  /\ permit' = [permit EXCEPT ![t].flags = @ \cup {"lapsed"}]
  /\ UNCHANGED <<permitRest, claim>>

(* Mutant: a review counts the other reviews and the operations, and       *)
(* forgets the permits.                                                    *)
ClaimReviewSlotBesidePermits(p, c, r) ==
  LET left == Claimed \ ReclaimableClaims
      runs == {q \in Runs : \E e \in left : claim[e].run = q} \ {r}
  IN /\ p \in alive
     /\ c \notin Claimed
     /\ Cardinality(VerificationRuns) + Cardinality(left)
          < MaxConcurrentVerifications
     /\ Cardinality(WorkRuns \ {r}) + Cardinality(runs) < MaxConcurrentRuns
     /\ claim' = [e \in Reviews |->
          IF e = c THEN [owner |-> p, run |-> r, flags |-> {}]
          ELSE IF e \in ReclaimableClaims THEN NoClaim ELSE claim[e]]
     /\ UNCHANGED <<permitRest, permit>>

(* claimReviewVerificationSlot: reclaim, then insert under both ceilings.   *)
ClaimReviewSlot(p, c, r) ==
  LET left == Claimed \ ReclaimableClaims
      runs == {q \in Runs : \E e \in left : claim[e].run = q} \ {r}
  IN /\ p \in alive
     /\ c \notin Claimed
     /\ Cardinality(VerificationRuns) + Cardinality(Granted)
          + Cardinality(left) < MaxConcurrentVerifications
     /\ Cardinality(WorkRuns \ {r}) + Cardinality(runs) < MaxConcurrentRuns
     /\ claim' = [e \in Reviews |->
          IF e = c THEN [owner |-> p, run |-> r, flags |-> {}]
          ELSE IF e \in ReclaimableClaims THEN NoClaim ELSE claim[e]]
     /\ UNCHANGED <<permitRest, permit>>

ReleaseReviewSlot(c) ==
  /\ claim[c].owner \in alive
  /\ claim' = [claim EXCEPT ![c] = NoClaim]
  /\ UNCHANGED <<permitRest, permit>>

ClaimLapses(c) ==
  /\ c \in Claimed /\ "lapsed" \notin claim[c].flags
  /\ claim' = [claim EXCEPT ![c].flags = {"lapsed"}]
  /\ UNCHANGED <<permitRest, permit>>

(* RequestVerification belongs to a driver and is composed in Scheduler. *)
PermitStep ==
  \/ \E t \in Tools : \/ AcquireVerification(t) \/ ReleaseVerification(t)
                      \/ ToolExits(t) \/ PermitLapses(t)
  \/ \E c \in Reviews : \/ ReleaseReviewSlot(c) \/ ClaimLapses(c)
                        \/ \E p \in Procs, r \in Runs : ClaimReviewSlot(p, c, r)
=============================================================================
