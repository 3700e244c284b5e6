---------------------------- MODULE MCRunLifecycle ----------------------------
(* Small instances of RunLifecycle for TLC. *)
EXTENDS RunLifecycle, TLC

CONSTANTS p1, p2

(* Passes are interchangeable. *)
Interchangeable == Permutations({p1, p2})
=============================================================================
