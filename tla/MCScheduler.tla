----------------------------- MODULE MCScheduler -----------------------------
(* Small instances of Scheduler for TLC. *)
EXTENDS Scheduler, TLC

CONSTANTS r1, r2, o1, o2, p1, p2

(* Who drives what. *)
TwoDriveOne == {<<p1, r1>>, <<p2, r1>>}

(* Processes are interchangeable where each drives the same run. *)
Interchangeable == Permutations({p1, p2})

(* One operation in one run. *)
SoleRunOf == o1 :> r1
SoleKind == o1 :> "work"
SoleDependsOn == o1 :> {}
SoleTwice == o1 :> 2
SoleOnce == o1 :> 1

(* Two operations of one run. *)
SharedRunOf == (o1 :> r1) @@ (o2 :> r1)
PairDependsOn == (o1 :> {}) @@ (o2 :> {})

BothWork == (o1 :> "work") @@ (o2 :> "work")

OnceEach == (o1 :> 1) @@ (o2 :> 1)
=============================================================================
