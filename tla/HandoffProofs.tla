---------------------------- MODULE HandoffProofs ----------------------------
(***************************************************************************)
(* What the controllers that replace each other keep, for any number of    *)
(* processes, runs and generations (module Handoff): types, the one        *)
(* process that admits work, the state a transition is decided on, and     *)
(* the direction authority moves in.                                       *)
(*                                                                         *)
(* All of it rests on the controller role.  A process at most of its       *)
(* positions holds the role (RoleOK), so whatever such a process does,     *)
(* every other one is where it admits nothing, drives nothing and writes   *)
(* neither a decision nor the authority.                                   *)
(***************************************************************************)
EXTENDS Handoff, TLAPS

(* The types of what a process keeps, as far as TypeOK does not state them. *)
Updates == [subject : 0 .. MaxGeneration, ready : BOOLEAN]
Sightings == [handoff : Handoffs, phase : Phases]
ProcessType ==
  [pc : Pcs, generation : Generations, gate : {"pending", "open", "held", "closed"},
   admitting : BOOLEAN, driving : SUBSET Runs, child : Processes \cup {None},
   transition : Handoffs \cup {None}, seen : Sightings \cup {None},
   update : Updates, decided : SUBSET (Runs \X Counts)]

(* The positions in which a transition is under way. *)
Transitional ==
  {"hold", "quiet", "evaluate", "begin", "drain", "release", "released", "proceed", "leave",
   "inert", "told", "takeOver", "revalidate", "admit", "prove", "project", "enable", "refused"}

(* A process is a record, has a transition at hand where it needs one, one  *)
(* to a revision trusted main has reached, and an update that is ready is   *)
(* for a later generation.                                                  *)
WellPlaced(x) ==
  /\ x \in ProcessType
  /\ x.pc \in Transitional => x.transition \in Handoffs
  /\ x.pc = "settle" => x.seen \in Sightings
  /\ x.update.ready => x.update.subject > x.generation
  /\ x.transition \in Handoffs => Successor(x.transition) <= trusted
PlaceOK ==
  /\ proc \in [Processes -> ProcessType]
  /\ \A p \in Processes : WellPlaced(proc[p])

(* The positions of a process that holds the controller role. *)
Holding ==
  {"resolve", "settle", "serve", "hold", "quiet", "evaluate", "begin", "drain", "release",
   "takeOver", "revalidate", "admit", "prove", "project", "enable", "refused"}

(* A process holds the role where the code relies on it; its gate is open   *)
(* and its turns run only there.                                            *)
Held(p, x, holder) ==
  /\ x.pc \in Holding => holder = p
  /\ x.gate = "open" => x.pc \in {"serve", "hold"}
  /\ x.admitting => x.gate = "open"
  /\ x.driving # {} => x.pc \in {"serve", "hold", "quiet"}
RoleOK == \A p \in Processes : Held(p, proc[p], role)

(* The authority names a revision trusted main has reached, and a successor *)
(* that has revalidated finds its predecessor governing still.              *)
GovernOK ==
  /\ authority # None => authority.generation <= trusted
  /\ \A p \in Processes :
       proc[p].pc \in {"admit", "prove"} =>
         (authority # None => authority.generation = Predecessor(proc[p].transition))

HandoffInv == TypeOK /\ PlaceOK /\ RoleOK /\ GovernOK /\ DecidedStateStands

-----------------------------------------------------------------------------
(* Processes.                                                               *)

(* Which positions there are. *)
LEMMA Positions ==
  /\ {"resolve", "settle", "serve"} \subseteq Pcs \ Transitional
  /\ Transitional \subseteq Pcs /\ "settle" \notin Transitional
  /\ {"hold", "quiet", "evaluate", "begin", "drain", "release", "proceed", "leave", "inert",
      "told", "takeOver"} \subseteq Transitional
BY DEF Pcs, Transitional

LEMMA DeadPlaced ==
  ASSUME trusted \in Generations
  PROVE  /\ WellPlaced(Dead)
         /\ \A g \in Generations : WellPlaced(Serving(g)) /\ Serving(g) \in ProcessType
<1>1. Dead \in ProcessType
  BY HandoffAssumption DEF Dead, ProcessType, Pcs, Generations, Updates
<1>2. \A g \in Generations : Serving(g) \in ProcessType
  BY <1>1 DEF Serving, Dead, ProcessType, Pcs
<1> QED
  BY <1>1, <1>2, HandoffAssumption DEF WellPlaced, Dead, Serving, Transitional

(* A step that changes one process. *)
LEMMA Placed ==
  ASSUME PlaceOK, NEW p \in Processes, NEW x, proc' = [proc EXCEPT ![p] = x],
         WellPlaced(x), trusted' = trusted
  PROVE  PlaceOK'
BY DEF PlaceOK, WellPlaced

(* One that only moves it on. *)
LEMMA Moved ==
  ASSUME PlaceOK, NEW p \in Processes, NEW pc \in Pcs \ {"settle"}, Goto(p, pc),
         pc \in Transitional => proc[p].pc \in Transitional, trusted' = trusted
  PROVE  PlaceOK'
<1>1. WellPlaced(proc[p]) /\ proc[p] \in ProcessType
  BY DEF PlaceOK
<1>2. WellPlaced([proc[p] EXCEPT !.pc = pc])
  BY <1>1 DEF WellPlaced, ProcessType
<1> QED
  BY <1>2, Placed DEF Goto, Update

LEMMA ExitPlaced ==
  ASSUME TypeOK, PlaceOK, NEW p \in Processes, Exit(p), trusted' = trusted
  PROVE  PlaceOK'
BY DeadPlaced, Placed DEF Exit, Update, TypeOK

LEMMA PersistPlaced ==
  ASSUME TypeOK, PlaceOK, NEW p \in Processes, NEW from, NEW to, NEW next \in Pcs \ {"settle"},
         Persist(p, from, to, next), proc[p].pc \in Transitional
  PROVE  PlaceOK'
BY Moved, ExitPlaced DEF Persist, Durable

(* Unable to go through with an update, a process serves on and its         *)
(* successor is gone.                                                       *)
LEMMA AbandonPlaced ==
  ASSUME TypeOK, PlaceOK, NEW p \in Processes, Abandon(p)
  PROVE  PlaceOK'
<1> DEFINE x == [proc[p] EXCEPT !.pc = "serve", !.gate = "open", !.child = None,
                                !.transition = None]
<1>1. WellPlaced(proc[p]) /\ proc[p] \in ProcessType
  BY DEF PlaceOK
<1>2. WellPlaced(x)
  BY <1>1, HandoffAssumption DEF WellPlaced, ProcessType, Pcs, Transitional
<1>3. WellPlaced(Dead) /\ trusted' = trusted
  BY DeadPlaced DEF TypeOK, Abandon, Durable
<1>4. \A q \in Processes : proc'[q] \in {proc[q], x, Dead}
  BY DEF Abandon, PlaceOK
<1>5. DOMAIN proc' = Processes /\ proc' = [q \in DOMAIN proc' |-> proc'[q]]
  BY DEF Abandon, PlaceOK
<1>6. \A q \in Processes : WellPlaced(proc'[q])
  BY <1>2, <1>3, <1>4 DEF PlaceOK
<1> QED
  BY <1>3, <1>5, <1>6 DEF PlaceOK, WellPlaced

(* A process that passes its startup serves, or goes on as a successor. *)
LEMMA AdmittedPlaced ==
  ASSUME TypeOK, PlaceOK, NEW p \in Processes
  PROVE  /\ WellPlaced(Admitted(p))
         /\ WellPlaced([Admitted(p) EXCEPT !.seen = None])
<1>1. WellPlaced(proc[p]) /\ proc[p] \in ProcessType
  BY DEF PlaceOK
<1>2. CASE proc[p].transition # None
  <2>1. Admitted(p) = [proc[p] EXCEPT !.pc = "takeOver"]
    BY <1>2 DEF Admitted
  <2>2. proc[p].transition \in Handoffs
    BY <1>1, <1>2 DEF ProcessType
  <2> QED
    BY Positions, <1>1, <2>1, <2>2 DEF WellPlaced, ProcessType
<1>3. CASE proc[p].transition = None
  <2>1. Admitted(p) = Serving(proc[p].generation)
    BY <1>3 DEF Admitted
  <2>2. WellPlaced(Serving(proc[p].generation)) /\ proc[p].generation \in Generations
    BY <1>1, DeadPlaced DEF TypeOK, ProcessType
  <2>3. WellPlaced([Serving(proc[p].generation) EXCEPT !.seen = None])
    BY <2>2, Positions DEF WellPlaced, ProcessType, Serving, Dead
  <2> QED
    BY <2>1, <2>2, <2>3
<1> QED
  BY <1>2, <1>3

LEMMA DecidedType ==
  ASSUME TypeOK
  PROVE  (\A r \in Runs : EventCount(r) \in Counts) /\ Decided \in SUBSET (Runs \X Counts)
<1>1. \A r \in Runs : /\ run[r].work \in Nat /\ Len(run[r].admitted) \in Nat
                      /\ run[r].told \in Nat
  BY HandoffAssumption DEF TypeOK
<1>2. \A r \in Runs : EventCount(r) \in Counts
  BY <1>1 DEF EventCount, Worked, Counts
<1> QED
  BY <1>2 DEF Decided, Live

LEMMA PlaceStep ==
  ASSUME TypeOK, PlaceOK, [Next]_vars
  PROVE  PlaceOK'
<1>0. /\ trusted \in Generations /\ pointer \in Generations
      /\ \A q \in Processes : WellPlaced(proc[q]) /\ proc[q] \in ProcessType
  BY DEF TypeOK, PlaceOK
<1>1. ASSUME NEW p \in Processes, Start(p) PROVE PlaceOK'
  <2>1. WellPlaced([Dead EXCEPT !.pc = "resolve", !.generation = pointer])
    BY Positions, <1>0, DeadPlaced DEF WellPlaced, Dead, ProcessType
  <2> QED
    BY <1>1, <2>1, Placed DEF Start, Update, Durable
<1>2. ASSUME NEW p \in Processes, Resolve(p) PROVE PlaceOK'
  <2>1. CASE Update(p, Admitted(p))
    BY <1>2, <2>1, AdmittedPlaced, Placed DEF Resolve, Update, Durable
  <2>2. ASSUME NEW h \in ResumePredecessor(proc[p].generation),
               Update(p, [proc[p] EXCEPT !.pc = "settle",
                            !.seen = [handoff |-> h, phase |-> handoff[h].phase]])
        PROVE  PlaceOK'
    <3>1. h \in Handoffs /\ handoff[h].phase \in Phases
      BY <2>2 DEF ResumePredecessor, Recorded, TypeOK
    <3>2. WellPlaced([proc[p] EXCEPT !.pc = "settle",
                        !.seen = [handoff |-> h, phase |-> handoff[h].phase]])
      BY Positions, <1>0, <3>1 DEF WellPlaced, ProcessType, Sightings
    <3> QED
      BY <1>2, <2>2, <3>2, Placed DEF Resolve, Update, Durable
  <2> QED
    BY <1>2, <2>1, <2>2 DEF Resolve
<1>3. ASSUME NEW p \in Processes, SettleInterrupted(p) PROVE PlaceOK'
  BY <1>3, AdmittedPlaced, Placed DEF SettleInterrupted, Update
<1>4. ASSUME NEW p \in Processes, BeginSubmit(p) PROVE PlaceOK'
  <2>1. WellPlaced([proc[p] EXCEPT !.admitting = TRUE])
    BY <1>0 DEF WellPlaced, ProcessType
  <2> QED
    BY <1>4, <2>1, Placed DEF BeginSubmit, Update, Durable
<1>5. ASSUME NEW p \in Processes, NEW r \in Runs, CommitSubmit(p, r) PROVE PlaceOK'
  <2>1. WellPlaced([proc[p] EXCEPT !.admitting = FALSE])
    BY <1>0 DEF WellPlaced, ProcessType
  <2> QED
    BY <1>5, <2>1, Placed DEF CommitSubmit, Update
<1>6. ASSUME NEW p \in Processes, NEW r \in Runs, StartTurn(p, r) PROVE PlaceOK'
  <2>1. WellPlaced([proc[p] EXCEPT !.driving = @ \cup {r}])
    BY <1>0 DEF WellPlaced, ProcessType
  <2> QED
    BY <1>6, <2>1, Placed DEF StartTurn, Update, Durable
<1>7. ASSUME NEW p \in Processes, NEW r \in Runs, EndTurn(p, r) PROVE PlaceOK'
  <2>1. WellPlaced([proc[p] EXCEPT !.driving = @ \ {r}])
    BY <1>0 DEF WellPlaced, ProcessType
  <2> QED
    BY <1>7, <2>1, Placed DEF EndTurn, Update
<1>8. CASE UNCHANGED <<proc, trusted>>
  BY <1>8 DEF PlaceOK, WellPlaced
<1>9. CASE TrustedMainAdvances
  BY <1>0, <1>9 DEF TrustedMainAdvances, PlaceOK, WellPlaced, Generations, Handoffs, Successor
<1>10. ASSUME NEW p \in Processes, SettleUpdate(p) PROVE PlaceOK'
  <2>1. Compatible(<<proc[p].generation, trusted>>) \in BOOLEAN
    BY DEF Compatible
  <2>2. WellPlaced([proc[p] EXCEPT
          !.update = [subject |-> trusted, ready |-> Compatible(<<proc[p].generation, trusted>>)]])
    BY <1>0, <1>10, <2>1 DEF SettleUpdate, WellPlaced, ProcessType, Updates, Generations
  <2> QED
    BY <1>10, <2>2, Placed DEF SettleUpdate, Update, Durable
<1>11. ASSUME NEW p \in Processes, NEW q \in Processes, Launch(p, q) PROVE PlaceOK'
  <2> DEFINE h == <<proc[p].generation, trusted>>
             x == [proc[p] EXCEPT !.pc = "hold", !.child = q, !.transition = h]
             y == [Dead EXCEPT !.pc = "inert", !.generation = trusted, !.transition = h]
  <2>1. h \in Handoffs /\ Successor(h) <= trusted
    BY <1>0, <1>11 DEF Launch, WellPlaced, ProcessType, Handoffs, Successor, Generations
  <2>2. WellPlaced(x)
    BY Positions, <1>0, <2>1 DEF WellPlaced, ProcessType
  <2>3. WellPlaced(y)
    BY Positions, <1>0, <2>1, DeadPlaced DEF WellPlaced, Dead, ProcessType
  <2>4. proc' = [proc EXCEPT ![p] = x, ![q] = y] /\ trusted' = trusted
    BY <1>11 DEF Launch, Durable
  <2> HIDE DEF x, y
  <2> QED
    BY <2>2, <2>3, <2>4 DEF PlaceOK, WellPlaced
<1>12. ASSUME NEW p \in Processes, HoldAdmission(p) PROVE PlaceOK'
  <2>1. WellPlaced([proc[p] EXCEPT !.gate = "held", !.pc = "quiet"])
    BY Positions, <1>0, <1>12 DEF HoldAdmission, At, WellPlaced, ProcessType
  <2> QED
    BY <1>12, <2>1, Placed DEF HoldAdmission, Update, Durable
<1>13. ASSUME NEW p \in Processes, Quiesced(p) PROVE PlaceOK'
  BY <1>13, Moved DEF Quiesced, At, Pcs, Transitional, Durable
<1>14. ASSUME NEW p \in Processes, Evaluate(p) PROVE PlaceOK'
  <2>1. CASE Abandon(p)
    BY <2>1, AbandonPlaced
  <2>2. CASE /\ Update(p, [proc[p] EXCEPT !.pc = "begin", !.decided = Decided])
             /\ UNCHANGED <<role, Durable>>
    <3>1. WellPlaced([proc[p] EXCEPT !.pc = "begin", !.decided = Decided])
      BY Positions, <1>0, <1>14, DecidedType DEF Evaluate, At, WellPlaced, ProcessType
    <3> QED
      BY <2>2, <3>1, Placed DEF Update, Durable
  <2> QED
    BY <1>14, <2>1, <2>2 DEF Evaluate
<1>15. ASSUME NEW p \in Processes, BeginHandoff(p) PROVE PlaceOK'
  <2>1. WellPlaced([proc[p] EXCEPT !.pc = "drain", !.decided = {}])
    BY Positions, <1>0, <1>15 DEF BeginHandoff, At, WellPlaced, ProcessType
  <2> QED
    BY <1>15, <2>1, Placed, ExitPlaced DEF BeginHandoff, Update, Durable
<1>16. ASSUME NEW p \in Processes, Drain(p) PROVE PlaceOK'
  <2>1. WellPlaced([proc[p] EXCEPT !.gate = "closed", !.pc = "release"])
    BY Positions, <1>0, <1>16 DEF Drain, At, WellPlaced, ProcessType
  <2> QED
    BY <1>16, <2>1, Placed DEF Drain, Update
<1>17. ASSUME NEW p \in Processes, ReleaseOwnership(p) PROVE PlaceOK'
  BY <1>17, Moved DEF ReleaseOwnership, At, Pcs, Transitional, Durable
<1>18. ASSUME NEW p \in Processes, RecordReleased(p) PROVE PlaceOK'
  BY <1>18, PersistPlaced DEF RecordReleased, At, Pcs, Transitional
<1>19. ASSUME NEW p \in Processes, Proceed(p) PROVE PlaceOK'
  <2> DEFINE x == [proc[p] EXCEPT !.pc = "leave", !.child = None]
  <2>1. WellPlaced(x)
    BY Positions, <1>0, <1>19 DEF Proceed, At, WellPlaced, ProcessType
  <2>2. \A q \in Processes : proc[q].pc = "inert" => WellPlaced([proc[q] EXCEPT !.pc = "told"])
    BY Positions, <1>0 DEF WellPlaced, ProcessType
  <2>3. \A q \in Processes :
          \/ proc'[q] \in {proc[q], x}
          \/ proc[q].pc = "inert" /\ proc'[q] = [proc[q] EXCEPT !.pc = "told"]
          \/ x.pc = "inert"
    BY <1>19 DEF Proceed, PlaceOK
  <2>4. x.pc = "leave"
    BY <1>0 DEF ProcessType
  <2>5. \A q \in Processes : WellPlaced(proc'[q])
    BY <1>0, <2>1, <2>2, <2>3, <2>4
  <2>6. DOMAIN proc' = Processes /\ proc' = [q \in DOMAIN proc' |-> proc'[q]]
    BY <1>19 DEF Proceed, PlaceOK
  <2>7. trusted' = trusted
    BY <1>19 DEF Proceed, Durable
  <2> QED
    BY <2>5, <2>6, <2>7 DEF PlaceOK, WellPlaced
<1>20. ASSUME NEW p \in Processes, Leave(p) \/ Orphaned(p) \/ Refused(p) \/ Crash(p)
       PROVE PlaceOK'
  BY <1>20, ExitPlaced DEF Leave, Orphaned, Refused, Crash, Durable
<1>21. ASSUME NEW p \in Processes, AcquireControllerRole(p) PROVE PlaceOK'
  BY <1>21, Moved, ExitPlaced DEF AcquireControllerRole, Pcs, Transitional, Durable
<1>22. ASSUME NEW p \in Processes, TakeOver(p) PROVE PlaceOK'
  BY <1>22, PersistPlaced DEF TakeOver, At, Pcs, Transitional
<1>23. ASSUME NEW p \in Processes, Revalidate(p) PROVE PlaceOK'
  BY <1>23, Moved DEF Revalidate, At, Pcs, Transitional
<1>24. ASSUME NEW p \in Processes, AdmitSuccession(p) PROVE PlaceOK'
  BY <1>8, <1>24, PersistPlaced DEF AdmitSuccession, At, Pcs, Transitional
<1>25. ASSUME NEW p \in Processes, ActivateControllerHandoff(p) PROVE PlaceOK'
  BY <1>25, Moved DEF ActivateControllerHandoff, At, Pcs, Transitional
<1>26. ASSUME NEW p \in Processes, ActivateControllerGeneration(p) PROVE PlaceOK'
  BY <1>26, Moved DEF ActivateControllerGeneration, At, Pcs, Transitional
<1>27. ASSUME NEW p \in Processes, EnableWorkAdmission(p) PROVE PlaceOK'
  BY <1>0, <1>27, DeadPlaced, Placed DEF EnableWorkAdmission, Update, Durable, ProcessType
<1>28. ASSUME NEW p \in Processes, QuiesceTimeout(p) PROVE PlaceOK'
  BY <1>28, AbandonPlaced DEF QuiesceTimeout
<1>29. ASSUME \/ \E r \in Runs : OperatorActs(r)
              \/ \E p \in Processes : RecoverActivated(p)
              \/ ReadoptController \/ ActivateReadoptedGeneration
              \/ UNCHANGED vars
       PROVE PlaceOK'
  BY <1>8, <1>29 DEF OperatorActs, OperatorAppends, CancelRun, PutCancelledRun, RecoverActivated, ReadoptController, ActivateReadoptedGeneration, vars
<1> QED
  BY <1>1, <1>2, <1>3, <1>4, <1>5, <1>6, <1>7, <1>9, <1>10, <1>11, <1>12, <1>13, <1>14,
     <1>15, <1>16, <1>17, <1>18, <1>19, <1>20, <1>21, <1>22, <1>23, <1>24, <1>25, <1>26,
     <1>27, <1>28, <1>29
     DEF Next, Undisturbed, Step, Environment, Restart

-----------------------------------------------------------------------------
(* The role.                                                                *)

LEMMA Holders ==
  /\ {"resolve", "settle", "serve", "hold", "quiet", "evaluate", "begin", "drain", "release",
      "takeOver", "revalidate", "admit", "prove", "project", "enable", "refused"} \subseteq Holding
  /\ \A pc \in {"dead", "inert", "told", "released", "proceed", "leave"} : pc \notin Holding
BY DEF Holding

(* A step that changes one process and takes the role from no other. *)
LEMMA HeldOn ==
  ASSUME PlaceOK, RoleOK, NEW p \in Processes, NEW x, proc' = [proc EXCEPT ![p] = x],
         Held(p, x, role'), \A q \in Processes \ {p} : role = q => role' = q
  PROVE  RoleOK'
BY DEF PlaceOK, RoleOK, Held

LEMMA ExitHeld ==
  ASSUME PlaceOK, RoleOK, NEW p \in Processes, Exit(p)
  PROVE  RoleOK'
<1>1. Held(p, Dead, role')
  BY Holders DEF Held, Dead
<1> QED
  BY <1>1, HeldOn DEF Exit, Update

(* A process that moves on within the positions of a holder that admits and *)
(* drives nothing, or that gives up being one.                              *)
LEMMA GotoHeld ==
  ASSUME PlaceOK, RoleOK, NEW p \in Processes, NEW pc, Goto(p, pc), role' = role,
         proc[p].pc \notin {"serve", "hold", "quiet"},
         pc \in Holding => proc[p].pc \in Holding
  PROVE  RoleOK'
<1>1. Held(p, proc[p], role) /\ proc[p] \in ProcessType
  BY DEF PlaceOK, RoleOK
<1>2. Held(p, [proc[p] EXCEPT !.pc = pc], role)
  BY <1>1 DEF Held, ProcessType
<1> QED
  BY <1>2, HeldOn DEF Goto, Update

LEMMA PersistHeld ==
  ASSUME PlaceOK, RoleOK, NEW p \in Processes, NEW from, NEW to, NEW next,
         Persist(p, from, to, next), proc[p].pc \notin {"serve", "hold", "quiet"},
         next \in Holding => proc[p].pc \in Holding
  PROVE  RoleOK'
BY GotoHeld, ExitHeld DEF Persist

LEMMA AbandonHeld ==
  ASSUME PlaceOK, RoleOK, NEW p \in Processes, Abandon(p), proc[p].pc \in Holding,
         proc[p].pc \in {"quiet", "evaluate"}
  PROVE  RoleOK'
<1> DEFINE x == [proc[p] EXCEPT !.pc = "serve", !.gate = "open", !.child = None,
                                !.transition = None]
<1>1. Held(p, proc[p], role) /\ proc[p] \in ProcessType
  BY DEF PlaceOK, RoleOK
<1>2. Held(p, x, role)
  BY <1>1 DEF Held, ProcessType
<1>3. \A q \in Processes : Held(q, Dead, role)
  BY Holders DEF Held, Dead
<1>4. \A q \in Processes : proc'[q] \in {proc[q], Dead} \/ (q = p /\ proc'[q] = x)
  BY DEF Abandon, PlaceOK
<1>5. role' = role
  BY DEF Abandon
<1> HIDE DEF x
<1> QED
  BY <1>2, <1>3, <1>4, <1>5 DEF RoleOK

LEMMA AdmittedHeld ==
  ASSUME PlaceOK, RoleOK, NEW p \in Processes, proc[p].pc \in {"resolve", "settle"}
  PROVE  /\ Held(p, Admitted(p), role)
         /\ Held(p, [Admitted(p) EXCEPT !.seen = None], role)
<1>1. Held(p, proc[p], role) /\ proc[p] \in ProcessType
  BY DEF PlaceOK, RoleOK
<1>2. role = p
  BY <1>1, Holders DEF Held
<1>3. CASE proc[p].transition # None
  BY <1>1, <1>2, <1>3 DEF Admitted, Held, ProcessType
<1>4. CASE proc[p].transition = None
  BY <1>2, <1>4 DEF Admitted, Serving, Dead, Held
<1> QED
  BY <1>3, <1>4

(* Every step keeps the role with the process that relies on it. *)
LEMMA RoleStep ==
  ASSUME TypeOK, PlaceOK, RoleOK, [Next]_vars
  PROVE  RoleOK'
<1>0. \A q \in Processes : Held(q, proc[q], role) /\ proc[q] \in ProcessType
  BY DEF PlaceOK, RoleOK
<1>n. \A q \in Processes : q # None
  BY HandoffAssumption
<1>1. ASSUME NEW p \in Processes, Start(p) PROVE RoleOK'
  <2>1. Held(p, [Dead EXCEPT !.pc = "resolve", !.generation = pointer], role')
    BY <1>1 DEF Start, Held, Dead
  <2> QED
    BY <1>1, <1>n, <2>1, HeldOn DEF Start, Update
<1>2. ASSUME NEW p \in Processes, Resolve(p) PROVE RoleOK'
  <2>1. CASE Update(p, Admitted(p))
    BY <1>2, <2>1, AdmittedHeld, HeldOn DEF Resolve, At, Update
  <2>2. ASSUME NEW h \in ResumePredecessor(proc[p].generation),
               Update(p, [proc[p] EXCEPT !.pc = "settle",
                            !.seen = [handoff |-> h, phase |-> handoff[h].phase]])
        PROVE  RoleOK'
    <3>1. Held(p, [proc[p] EXCEPT !.pc = "settle",
                     !.seen = [handoff |-> h, phase |-> handoff[h].phase]], role)
      BY <1>0, <1>2, Holders DEF Resolve, At, Held, ProcessType
    <3> QED
      BY <1>2, <2>2, <3>1, HeldOn DEF Resolve, Update
  <2> QED
    BY <1>2, <2>1, <2>2 DEF Resolve
<1>3. ASSUME NEW p \in Processes, SettleInterrupted(p) PROVE RoleOK'
  BY <1>3, AdmittedHeld, HeldOn DEF SettleInterrupted, At, Update
<1>4. ASSUME NEW p \in Processes, BeginSubmit(p) PROVE RoleOK'
  <2>1. Held(p, [proc[p] EXCEPT !.admitting = TRUE], role)
    BY <1>0, <1>4 DEF BeginSubmit, Held, ProcessType
  <2> QED
    BY <1>4, <2>1, HeldOn DEF BeginSubmit, Update
<1>5. ASSUME NEW p \in Processes, NEW r \in Runs, CommitSubmit(p, r) PROVE RoleOK'
  <2>1. Held(p, [proc[p] EXCEPT !.admitting = FALSE], role)
    BY <1>0 DEF Held, ProcessType
  <2> QED
    BY <1>5, <2>1, HeldOn DEF CommitSubmit, Update
<1>6. ASSUME NEW p \in Processes, NEW r \in Runs, StartTurn(p, r) PROVE RoleOK'
  <2>1. Held(p, [proc[p] EXCEPT !.driving = @ \cup {r}], role)
    BY <1>0, <1>6 DEF StartTurn, At, Held, ProcessType
  <2> QED
    BY <1>6, <2>1, HeldOn DEF StartTurn, Update
<1>7. ASSUME NEW p \in Processes, NEW r \in Runs, EndTurn(p, r) PROVE RoleOK'
  <2>1. Held(p, [proc[p] EXCEPT !.driving = @ \ {r}], role)
    BY <1>0, <1>7 DEF EndTurn, Held, ProcessType
  <2> QED
    BY <1>7, <2>1, HeldOn DEF EndTurn, Update
<1>8. CASE UNCHANGED <<proc, role>>
  BY <1>8 DEF RoleOK
<1>10. ASSUME NEW p \in Processes, SettleUpdate(p) PROVE RoleOK'
  <2>1. \A u : Held(p, [proc[p] EXCEPT !.update = u], role)
    BY <1>0 DEF Held, ProcessType
  <2> QED
    BY <1>10, <2>1, HeldOn DEF SettleUpdate, Update
<1>11. ASSUME NEW p \in Processes, NEW q \in Processes, Launch(p, q) PROVE RoleOK'
  <2> DEFINE h == <<proc[p].generation, trusted>>
             x == [proc[p] EXCEPT !.pc = "hold", !.child = q, !.transition = h]
             y == [Dead EXCEPT !.pc = "inert", !.generation = trusted, !.transition = h]
  <2>1. Held(p, x, role)
    BY <1>0, <1>11, Holders DEF Launch, At, Held, ProcessType
  <2>2. Held(q, y, role)
    BY Holders DEF Held, Dead
  <2>3. proc' = [proc EXCEPT ![p] = x, ![q] = y] /\ role' = role
    BY <1>11 DEF Launch
  <2> HIDE DEF x, y
  <2> QED
    BY <2>1, <2>2, <2>3 DEF RoleOK, PlaceOK
<1>12. ASSUME NEW p \in Processes, HoldAdmission(p) PROVE RoleOK'
  <2>1. Held(p, [proc[p] EXCEPT !.gate = "held", !.pc = "quiet"], role)
    BY <1>0, <1>12, Holders DEF HoldAdmission, At, Held, ProcessType
  <2> QED
    BY <1>12, <2>1, HeldOn DEF HoldAdmission, Update
<1>13. ASSUME NEW p \in Processes, Quiesced(p) PROVE RoleOK'
  <2>1. Held(p, [proc[p] EXCEPT !.pc = "evaluate"], role)
    BY <1>0, <1>13, Holders DEF Quiesced, At, Held, ProcessType
  <2> QED
    BY <1>13, <2>1, HeldOn DEF Quiesced, Goto, Update
<1>14. ASSUME NEW p \in Processes, Evaluate(p) PROVE RoleOK'
  <2>1. CASE Abandon(p)
    BY <1>14, <2>1, AbandonHeld, Holders DEF Evaluate, At
  <2>2. CASE /\ Update(p, [proc[p] EXCEPT !.pc = "begin", !.decided = Decided])
             /\ UNCHANGED <<role, Durable>>
    <3>1. \A d : Held(p, [proc[p] EXCEPT !.pc = "begin", !.decided = d], role)
      BY <1>0, <1>14, Holders DEF Evaluate, At, Held, ProcessType
    <3> QED
      BY <2>2, <3>1, HeldOn DEF Update
  <2> QED
    BY <1>14, <2>1, <2>2 DEF Evaluate
<1>15. ASSUME NEW p \in Processes, BeginHandoff(p) PROVE RoleOK'
  <2>1. Held(p, [proc[p] EXCEPT !.pc = "drain", !.decided = {}], role)
    BY <1>0, <1>15, Holders DEF BeginHandoff, At, Held, ProcessType
  <2> QED
    BY <1>15, <2>1, HeldOn, ExitHeld DEF BeginHandoff, Update
<1>16. ASSUME NEW p \in Processes, Drain(p) PROVE RoleOK'
  <2>1. Held(p, [proc[p] EXCEPT !.gate = "closed", !.pc = "release"], role)
    BY <1>0, <1>16, Holders DEF Drain, At, Held, ProcessType
  <2> QED
    BY <1>16, <2>1, HeldOn DEF Drain, Update
<1>17. ASSUME NEW p \in Processes, ReleaseOwnership(p) PROVE RoleOK'
  <2>1. Held(p, [proc[p] EXCEPT !.pc = "released"], None)
    BY <1>0, <1>17, Holders DEF ReleaseOwnership, At, Held, ProcessType
  <2>2. role = p
    BY <1>0, <1>17, Holders DEF ReleaseOwnership, At, Held
  <2> QED
    BY <1>17, <2>1, <2>2, HeldOn DEF ReleaseOwnership, Goto, Update
<1>18. ASSUME NEW p \in Processes, RecordReleased(p) PROVE RoleOK'
  BY <1>18, PersistHeld, Holders DEF RecordReleased, At
<1>19. ASSUME NEW p \in Processes, Proceed(p) PROVE RoleOK'
  <2> DEFINE x == [proc[p] EXCEPT !.pc = "leave", !.child = None]
  <2>1. Held(p, x, role) /\ x.pc = "leave"
    BY <1>0, <1>19, Holders DEF Proceed, At, Held, ProcessType
  <2>2. \A q \in Processes :
          proc[q].pc = "inert" => Held(q, [proc[q] EXCEPT !.pc = "told"], role)
    BY <1>0, Holders DEF Held, ProcessType
  <2>3. \A q \in Processes :
          \/ proc'[q] = proc[q]
          \/ q = p /\ proc'[q] = x
          \/ proc[q].pc = "inert" /\ proc'[q] = [proc[q] EXCEPT !.pc = "told"]
          \/ x.pc = "inert"
    BY <1>19 DEF Proceed, PlaceOK
  <2>4. role' = role
    BY <1>19 DEF Proceed
  <2> QED
    BY <1>0, <2>1, <2>2, <2>3, <2>4 DEF RoleOK
<1>20. ASSUME NEW p \in Processes, Leave(p) \/ Orphaned(p) \/ Refused(p) \/ Crash(p)
       PROVE RoleOK'
  BY <1>20, ExitHeld DEF Leave, Orphaned, Refused, Crash
<1>21. ASSUME NEW p \in Processes, AcquireControllerRole(p) PROVE RoleOK'
  <2>1. Held(p, [proc[p] EXCEPT !.pc = "resolve"], p)
    BY <1>0, <1>21 DEF AcquireControllerRole, At, Held, ProcessType
  <2> QED
    BY <1>21, <1>n, <2>1, HeldOn, ExitHeld DEF AcquireControllerRole, Goto, Update
<1>22. ASSUME NEW p \in Processes, TakeOver(p) PROVE RoleOK'
  BY <1>22, PersistHeld, Holders DEF TakeOver, At
<1>23. ASSUME NEW p \in Processes, Revalidate(p) PROVE RoleOK'
  BY <1>23, GotoHeld, Holders DEF Revalidate, At
<1>24. ASSUME NEW p \in Processes, AdmitSuccession(p) PROVE RoleOK'
  BY <1>8, <1>24, PersistHeld, Holders DEF AdmitSuccession, At
<1>25. ASSUME NEW p \in Processes, ActivateControllerHandoff(p) PROVE RoleOK'
  BY <1>25, GotoHeld, Holders DEF ActivateControllerHandoff, At
<1>26. ASSUME NEW p \in Processes, ActivateControllerGeneration(p) PROVE RoleOK'
  BY <1>26, GotoHeld, Holders DEF ActivateControllerGeneration, At
<1>27. ASSUME NEW p \in Processes, EnableWorkAdmission(p) PROVE RoleOK'
  <2>1. Held(p, Serving(proc[p].generation), role)
    BY <1>0, <1>27, Holders DEF EnableWorkAdmission, At, Held, Serving, Dead
  <2> QED
    BY <1>27, <2>1, HeldOn DEF EnableWorkAdmission, Update
<1>28. ASSUME NEW p \in Processes, QuiesceTimeout(p) PROVE RoleOK'
  BY <1>28, AbandonHeld, Holders DEF QuiesceTimeout, At
<1>29. ASSUME \/ \E r \in Runs : OperatorActs(r)
              \/ \E p \in Processes : RecoverActivated(p)
              \/ TrustedMainAdvances \/ ReadoptController \/ ActivateReadoptedGeneration
              \/ UNCHANGED vars
       PROVE RoleOK'
  BY <1>8, <1>29 DEF OperatorActs, OperatorAppends, CancelRun, PutCancelledRun, RecoverActivated, TrustedMainAdvances, ReadoptController,
     ActivateReadoptedGeneration, vars
<1> QED
  BY <1>1, <1>2, <1>3, <1>4, <1>5, <1>6, <1>7, <1>10, <1>11, <1>12, <1>13, <1>14, <1>15,
     <1>16, <1>17, <1>18, <1>19, <1>20, <1>21, <1>22, <1>23, <1>24, <1>25, <1>26, <1>27,
     <1>28, <1>29
     DEF Next, Undisturbed, Step, Environment, Restart

-----------------------------------------------------------------------------
(* Records, runs and authority: which steps write them.                     *)

HandoffRecords ==
  [phase : Phases, owner : Generations \cup {None}, decided : SUBSET (Runs \X Counts)]
WellRecorded(x) == x \in HandoffRecords /\ (x.owner = None <=> x.phase = "none")

LEMMA AdvanceWell ==
  ASSUME NEW h \in Handoffs, NEW x \in HandoffRecords, NEW to \in Phases \ {"none"}
  PROVE  /\ WellRecorded(Advance(h, x, to))
         /\ to \notin {"failed", "activated"} => Advance(h, x, to).decided = x.decided
<1>1. Predecessor(h) \in Generations /\ Successor(h) \in Generations
  BY DEF Handoffs, Predecessor, Successor
<1>2. None \notin Generations
  BY HandoffAssumption
<1> QED
  BY <1>1, <1>2 DEF Advance, WellRecorded, HandoffRecords

(* A record is advanced to a phase, or a transition is recorded anew. *)
Advances ==
  \E h \in Handoffs, to \in Phases \ {"none"} :
    PutControllerHandoff(h, Advance(h, handoff[h], to), handoff[h].phase)

LEMMA AdvancesBy ==
  ASSUME NEW h \in Handoffs, NEW to \in Phases \ {"none"}, NEW e,
         PutControllerHandoff(h, Advance(h, handoff[h], to), e)
  PROVE  Advances
BY DEF Advances, PutControllerHandoff

LEMMA PersistRecords ==
  ASSUME PlaceOK, NEW p \in Processes, NEW from, NEW to \in Phases \ {"none"}, NEW next,
         Persist(p, from, to, next), proc[p].pc \in Transitional
  PROVE  /\ UNCHANGED <<run, authority, pointer, trusted>>
         /\ UNCHANGED <<handoff, recent>> \/ Advances
<1>1. proc[p].transition \in Handoffs
  BY DEF PlaceOK, WellPlaced
<1> QED
  BY <1>1, AdvancesBy DEF Persist, Durable

(* Every step that is not a record's first leaves the records alone or      *)
(* advances one.                                                            *)
LEMMA RecordStep ==
  ASSUME TypeOK, PlaceOK, [Next]_vars, \A p \in Processes : ~BeginHandoff(p)
  PROVE  UNCHANGED <<handoff, recent>> \/ Advances
<1>0. \A q \in Processes : WellPlaced(proc[q]) /\ proc[q] \in ProcessType
  BY DEF PlaceOK
<1>f. {"failed", "draining", "ownership_released", "successor_acquired", "revalidated",
       "activated"} \subseteq Phases \ {"none"}
  BY DEF Phases
<1>1. ASSUME NEW p \in Processes, SettleInterrupted(p)
      PROVE  UNCHANGED <<handoff, recent>> \/ Advances
  <2>1. proc[p].seen.handoff \in Handoffs
    BY <1>0, <1>1 DEF SettleInterrupted, At, WellPlaced, Sightings
  <2> QED
    BY <1>1, <1>f, <2>1, AdvancesBy DEF SettleInterrupted
<1>2. ASSUME NEW p \in Processes,
             Drain(p) \/ Revalidate(p) \/ ActivateControllerHandoff(p)
      PROVE  UNCHANGED <<handoff, recent>> \/ Advances
  <2>1. proc[p].transition \in Handoffs
    BY <1>0, <1>2
       DEF Drain, Revalidate, ActivateControllerHandoff, At, WellPlaced, Transitional
  <2> QED
    BY <1>2, <1>f, <2>1, AdvancesBy DEF Drain, Revalidate, ActivateControllerHandoff
<1>3. ASSUME NEW p \in Processes, RecordReleased(p) \/ TakeOver(p) \/ AdmitSuccession(p)
      PROVE  UNCHANGED <<handoff, recent>> \/ Advances
  BY <1>3, <1>f, PersistRecords
     DEF RecordReleased, TakeOver, AdmitSuccession, At, Transitional
<1>4. ASSUME NEW p \in Processes,
             \/ Resolve(p) \/ (\E r \in Runs : CommitSubmit(p, r) \/ EndTurn(p, r))
             \/ SettleUpdate(p) \/ (\E q \in Processes : Launch(p, q))
             \/ HoldAdmission(p) \/ Quiesced(p) \/ Evaluate(p) \/ ReleaseOwnership(p)
             \/ Proceed(p) \/ Leave(p) \/ Orphaned(p) \/ AcquireControllerRole(p)
             \/ Refused(p) \/ ActivateControllerGeneration(p) \/ EnableWorkAdmission(p)
             \/ RecoverActivated(p) \/ QuiesceTimeout(p) \/ Crash(p) \/ Start(p)
             \/ BeginSubmit(p) \/ (\E r \in Runs : StartTurn(p, r))
      PROVE  UNCHANGED <<handoff, recent>>
  BY <1>4 DEF Resolve, CommitSubmit, EndTurn, SettleUpdate, Launch, HoldAdmission, Quiesced,
     Evaluate, Abandon, ReleaseOwnership, Proceed, Leave, Orphaned, AcquireControllerRole,
     Refused, ActivateControllerGeneration, EnableWorkAdmission, RecoverActivated,
     QuiesceTimeout, Crash, Start, BeginSubmit, StartTurn, Durable
<1>5. ASSUME \/ \E r \in Runs : OperatorActs(r)
             \/ TrustedMainAdvances \/ ReadoptController \/ ActivateReadoptedGeneration
             \/ UNCHANGED vars
      PROVE  UNCHANGED <<handoff, recent>>
  BY <1>5 DEF OperatorActs, OperatorAppends, CancelRun, PutCancelledRun, TrustedMainAdvances, ReadoptController, ActivateReadoptedGeneration, vars
<1> QED
  BY <1>1, <1>2, <1>3, <1>4, <1>5 DEF Next, Undisturbed, Step, Environment, Restart

(* Only a startup and a successor settle a transition. *)
Settles(p) ==
  SettleInterrupted(p) \/ Revalidate(p) \/ AdmitSuccession(p) \/ ActivateControllerHandoff(p)
AdvancesOn ==
  \E h \in Handoffs, to \in Phases \ {"none", "failed", "activated"} :
    PutControllerHandoff(h, Advance(h, handoff[h], to), handoff[h].phase)
LEMMA UnsettledStep ==
  ASSUME TypeOK, PlaceOK, [Next]_vars,
         \A p \in Processes : ~BeginHandoff(p) /\ ~Settles(p)
  PROVE  UNCHANGED handoff \/ AdvancesOn
<1>0. \A q \in Processes : WellPlaced(proc[q]) /\ proc[q] \in ProcessType
  BY DEF PlaceOK
<1>f. {"draining", "ownership_released", "successor_acquired"}
        \subseteq Phases \ {"none", "failed", "activated"}
  BY DEF Phases
<1>a. ASSUME NEW h \in Handoffs, NEW to \in {"draining", "ownership_released", "successor_acquired"},
             NEW e, PutControllerHandoff(h, Advance(h, handoff[h], to), e)
      PROVE  AdvancesOn
  BY <1>a, <1>f DEF AdvancesOn, PutControllerHandoff
<1>1. ASSUME NEW p \in Processes, Drain(p) \/ RecordReleased(p) \/ TakeOver(p)
      PROVE  UNCHANGED handoff \/ AdvancesOn
  <2>1. proc[p].transition \in Handoffs
    BY <1>0, <1>1 DEF Drain, RecordReleased, TakeOver, At, WellPlaced, Transitional
  <2> QED
    BY <1>1, <1>a, <2>1 DEF Drain, RecordReleased, TakeOver, Persist, Durable
<1>2. ASSUME NEW p \in Processes,
             \/ Resolve(p) \/ (\E r \in Runs : CommitSubmit(p, r) \/ EndTurn(p, r))
             \/ SettleUpdate(p) \/ (\E q \in Processes : Launch(p, q))
             \/ HoldAdmission(p) \/ Quiesced(p) \/ Evaluate(p) \/ ReleaseOwnership(p)
             \/ Proceed(p) \/ Leave(p) \/ Orphaned(p) \/ AcquireControllerRole(p)
             \/ Refused(p) \/ ActivateControllerGeneration(p) \/ EnableWorkAdmission(p)
             \/ RecoverActivated(p) \/ QuiesceTimeout(p) \/ Crash(p) \/ Start(p)
             \/ BeginSubmit(p) \/ (\E r \in Runs : StartTurn(p, r))
      PROVE  UNCHANGED handoff
  BY <1>2 DEF Resolve, CommitSubmit, EndTurn, SettleUpdate, Launch, HoldAdmission, Quiesced,
     Evaluate, Abandon, ReleaseOwnership, Proceed, Leave, Orphaned, AcquireControllerRole,
     Refused, ActivateControllerGeneration, EnableWorkAdmission, RecoverActivated,
     QuiesceTimeout, Crash, Start, BeginSubmit, StartTurn, Durable
<1>3. ASSUME \/ \E r \in Runs : OperatorActs(r)
             \/ TrustedMainAdvances \/ ReadoptController \/ ActivateReadoptedGeneration
             \/ UNCHANGED vars
      PROVE  UNCHANGED handoff
  BY <1>3 DEF OperatorActs, OperatorAppends, CancelRun, PutCancelledRun, TrustedMainAdvances,
     ReadoptController, ActivateReadoptedGeneration, vars
<1> QED
  BY <1>1, <1>2, <1>3 DEF Settles, Next, Undisturbed, Step, Environment, Restart

(* The steps that write the runs. *)
LEMMA RunStep ==
  ASSUME TypeOK, PlaceOK, [Next]_vars
  PROVE  \/ run' = run
         \/ \E r \in Runs : OperatorActs(r)
         \/ \E p \in Processes, r \in Runs : CommitSubmit(p, r) \/ EndTurn(p, r)
         \/ \E p \in Processes : At(p, "admit") /\ AdmitSuccession(p)
<1>1. ASSUME NEW p \in Processes,
             \/ Resolve(p) \/ SettleUpdate(p) \/ (\E q \in Processes : Launch(p, q))
             \/ HoldAdmission(p) \/ Quiesced(p) \/ Evaluate(p) \/ ReleaseOwnership(p)
             \/ Proceed(p) \/ Leave(p) \/ Orphaned(p) \/ AcquireControllerRole(p)
             \/ Refused(p) \/ ActivateControllerGeneration(p) \/ EnableWorkAdmission(p)
             \/ RecoverActivated(p) \/ QuiesceTimeout(p) \/ Crash(p) \/ Start(p)
             \/ BeginSubmit(p) \/ (\E r \in Runs : StartTurn(p, r))
             \/ SettleInterrupted(p) \/ BeginHandoff(p) \/ Drain(p) \/ Revalidate(p)
             \/ ActivateControllerHandoff(p) \/ RecordReleased(p) \/ TakeOver(p)
      PROVE  run' = run
  BY <1>1 DEF Resolve, SettleUpdate, Launch, HoldAdmission, Quiesced, Evaluate, Abandon,
     ReleaseOwnership, Proceed, Leave, Orphaned, AcquireControllerRole, Refused,
     ActivateControllerGeneration, EnableWorkAdmission, RecoverActivated, QuiesceTimeout,
     Crash, Start, BeginSubmit, StartTurn, SettleInterrupted, BeginHandoff, Drain, Revalidate,
     ActivateControllerHandoff, RecordReleased, TakeOver, Persist, Durable
<1>2. ASSUME TrustedMainAdvances \/ ReadoptController \/ ActivateReadoptedGeneration
             \/ UNCHANGED vars
      PROVE  run' = run
  BY <1>2 DEF TrustedMainAdvances, ReadoptController, ActivateReadoptedGeneration, vars
<1>3. ASSUME NEW p \in Processes, AdmitSuccession(p) PROVE At(p, "admit")
  BY <1>3 DEF AdmitSuccession
<1> QED
  BY <1>1, <1>2, <1>3 DEF Next, Undisturbed, Step, Environment, Restart

(* The steps that write the authority, the entrypoint and trusted main. *)
LEMMA AuthorityStep ==
  ASSUME TypeOK, PlaceOK, [Next]_vars
  PROVE  \/ UNCHANGED <<authority, pointer, trusted>>
         \/ TrustedMainAdvances \/ ReadoptController \/ ActivateReadoptedGeneration
         \/ \E p \in Processes : \/ ActivateControllerHandoff(p)
                                 \/ ActivateControllerGeneration(p) \/ RecoverActivated(p)
<1>1. ASSUME NEW p \in Processes,
             \/ Resolve(p) \/ SettleUpdate(p) \/ (\E q \in Processes : Launch(p, q))
             \/ HoldAdmission(p) \/ Quiesced(p) \/ Evaluate(p) \/ ReleaseOwnership(p)
             \/ Proceed(p) \/ Leave(p) \/ Orphaned(p) \/ AcquireControllerRole(p)
             \/ Refused(p) \/ EnableWorkAdmission(p)
             \/ QuiesceTimeout(p) \/ Crash(p) \/ Start(p)
             \/ BeginSubmit(p) \/ (\E r \in Runs : StartTurn(p, r))
             \/ (\E r \in Runs : CommitSubmit(p, r) \/ EndTurn(p, r))
             \/ SettleInterrupted(p) \/ BeginHandoff(p) \/ Drain(p) \/ Revalidate(p)
             \/ RecordReleased(p) \/ TakeOver(p) \/ AdmitSuccession(p)
      PROVE  UNCHANGED <<authority, pointer, trusted>>
  BY <1>1 DEF Resolve, SettleUpdate, Launch, HoldAdmission, Quiesced, Evaluate, Abandon,
     ReleaseOwnership, Proceed, Leave, Orphaned, AcquireControllerRole, Refused,
     EnableWorkAdmission, QuiesceTimeout, CommitSubmit, EndTurn,
     Crash, Start, BeginSubmit, StartTurn, SettleInterrupted, BeginHandoff, Drain, Revalidate,
     RecordReleased, TakeOver, AdmitSuccession, Persist, Durable
<1>2. ASSUME (\E r \in Runs : OperatorActs(r)) \/ UNCHANGED vars
      PROVE  UNCHANGED <<authority, pointer, trusted>>
  BY <1>2 DEF OperatorActs, OperatorAppends, CancelRun, PutCancelledRun, vars
<1> QED
  BY <1>1, <1>2 DEF Next, Undisturbed, Step, Environment, Restart

-----------------------------------------------------------------------------
(* Types.                                                                   *)

RecordsOK ==
  /\ handoff \in [Handoffs -> HandoffRecords]
  /\ \A h \in Handoffs : WellRecorded(handoff[h])
  /\ recent \subseteq Handoffs \X Handoffs

LEMMA PutWell ==
  ASSUME RecordsOK, NEW h \in Handoffs, NEW x, WellRecorded(x), NEW e,
         PutControllerHandoff(h, x, e)
  PROVE  RecordsOK'
BY DEF RecordsOK, WellRecorded, PutControllerHandoff, Recorded

LEMMA RecordsStep ==
  ASSUME TypeOK, PlaceOK, RecordsOK, [Next]_vars
  PROVE  RecordsOK'
<1>1. CASE Advances
  <2>1. PICK h \in Handoffs, to \in Phases \ {"none"} :
          PutControllerHandoff(h, Advance(h, handoff[h], to), handoff[h].phase)
    BY <1>1 DEF Advances
  <2>2. WellRecorded(Advance(h, handoff[h], to))
    BY AdvanceWell DEF RecordsOK
  <2> QED
    BY <2>1, <2>2, PutWell
<1>2. ASSUME NEW p \in Processes, BeginHandoff(p) PROVE RecordsOK'
  <2> DEFINE h == proc[p].transition
             empty == [NoHandoff EXCEPT !.decided = proc[p].decided]
  <2>1. h \in Handoffs /\ proc[p].decided \in SUBSET (Runs \X Counts)
    BY <1>2 DEF BeginHandoff, At, PlaceOK, WellPlaced, ProcessType, Transitional
  <2>2. empty \in HandoffRecords
    BY <2>1 DEF NoHandoff, HandoffRecords, Phases
  <2>3. WellRecorded(Advance(h, empty, "prepared"))
    BY <2>1, <2>2, AdvanceWell DEF Phases
  <2>4. \/ \E e : PutControllerHandoff(h, Advance(h, empty, "prepared"), e)
        \/ UNCHANGED <<handoff, recent>>
    BY <1>2 DEF BeginHandoff, Durable
  <2> HIDE DEF empty
  <2> QED
    BY <2>1, <2>3, <2>4, PutWell DEF RecordsOK, WellRecorded
<1>3. CASE UNCHANGED <<handoff, recent>>
  BY <1>3 DEF RecordsOK, WellRecorded
<1> QED
  BY <1>1, <1>2, <1>3, RecordStep

RunRecords ==
  [state : {"none", "live", "cancelled", "done"}, creator : Generations, work : 0 .. MaxWork,
   told : 0 .. MaxTold, admitted : Seq(Handoffs)]

LEMMA RunEdited ==
  ASSUME NEW S, "live" \in S, "cancelled" \in S, NEW G, NEW W, NEW O, NEW J,
         NEW x \in [state : S, creator : G, work : W, told : O, admitted : J]
  PROVE  /\ \A g \in G : [x EXCEPT !.state = "live", !.creator = g]
               \in [state : S, creator : G, work : W, told : O, admitted : J]
         /\ \A w \in W : [x EXCEPT !.work = w]
               \in [state : S, creator : G, work : W, told : O, admitted : J]
         /\ \A t \in O : /\ [x EXCEPT !.told = t]
                            \in [state : S, creator : G, work : W, told : O, admitted : J]
                        /\ [x EXCEPT !.state = "cancelled", !.told = t]
                            \in [state : S, creator : G, work : W, told : O, admitted : J]
         /\ \A j \in J : [x EXCEPT !.admitted = j]
               \in [state : S, creator : G, work : W, told : O, admitted : J]
OBVIOUS

LEMMA RunTypeStep ==
  ASSUME TypeOK, PlaceOK, [Next]_vars
  PROVE  run' \in [Runs -> RunRecords]
<1>0. /\ run \in [Runs -> RunRecords]
      /\ \A q \in Processes : WellPlaced(proc[q]) /\ proc[q] \in ProcessType
  BY DEF TypeOK, PlaceOK, RunRecords
<1>e. Ended \in RunRecords
  BY HandoffAssumption DEF Ended, RunRecords, Generations
<1>1. ASSUME NEW r \in Runs, OperatorActs(r) PROVE run' \in [Runs -> RunRecords]
  <2>0. run[r] \in RunRecords
    BY <1>0
  <2>1. CASE PutCancelledRun(r)
    BY <1>0, <2>1, <1>e DEF PutCancelledRun
  <2>2. CASE OperatorAppends(r) \/ CancelRun(r)
    <3>1. run[r].told + 1 \in 0 .. MaxTold
      BY <2>0, <2>2, HandoffAssumption DEF OperatorAppends, CancelRun, RunRecords
    <3>2. /\ [run[r] EXCEPT !.told = run[r].told + 1] \in RunRecords
          /\ [run[r] EXCEPT !.state = "cancelled", !.told = run[r].told + 1] \in RunRecords
      BY <2>0, <3>1, RunEdited DEF RunRecords
    <3>3. \/ run' = [run EXCEPT ![r] = [run[r] EXCEPT !.told = run[r].told + 1]]
          \/ run' = [run EXCEPT ![r] =
                      [run[r] EXCEPT !.state = "cancelled", !.told = run[r].told + 1]]
      BY <1>0, <2>0, <2>2 DEF OperatorAppends, CancelRun, RunRecords
    <3> QED
      BY <1>0, <3>2, <3>3
  <2> QED
    BY <1>1, <2>1, <2>2 DEF OperatorActs
<1>2. ASSUME NEW p \in Processes, NEW r \in Runs, CommitSubmit(p, r)
      PROVE  run' \in [Runs -> RunRecords]
  <2>1. [run[r] EXCEPT !.state = "live", !.creator = proc[p].generation] \in RunRecords
    <3>1. proc[p].generation \in Generations
      BY <1>0 DEF ProcessType
    <3>2. run[r] \in RunRecords
      BY <1>0
    <3> QED
      BY <3>1, <3>2, RunEdited, Zenon DEF RunRecords
  <2>2. run' = [run EXCEPT ![r] = [run[r] EXCEPT !.state = "live", !.creator = proc[p].generation]]
    BY <1>0, <1>2 DEF CommitSubmit, RunRecords
  <2> QED
    BY <1>0, <2>1, <2>2
<1>3. ASSUME NEW p \in Processes, NEW r \in Runs, EndTurn(p, r)
      PROVE  run' \in [Runs -> RunRecords]
  <2>1. CASE run[r].work < MaxWork /\ run' = [run EXCEPT ![r].work = @ + 1]
    <3>1. [run[r] EXCEPT !.work = @ + 1] \in RunRecords
      <4>1. run[r] \in RunRecords
        BY <1>0
      <4>2. run[r].work + 1 \in 0 .. MaxWork
        BY <2>1, <4>1, HandoffAssumption DEF RunRecords
      <4> QED
        BY <4>1, <4>2, RunEdited, Zenon DEF RunRecords
    <3>2. run' = [run EXCEPT ![r] = [run[r] EXCEPT !.work = @ + 1]]
      BY <1>0, <2>1 DEF RunRecords
    <3> QED
      BY <1>0, <3>1, <3>2
  <2>2. CASE run' = [run EXCEPT ![r] = Ended]
    BY <1>0, <1>e, <2>2
  <2> QED
    BY <1>3, <2>1, <2>2 DEF EndTurn
<1>4. ASSUME NEW p \in Processes, At(p, "admit"), AdmitSuccession(p)
      PROVE  run' \in [Runs -> RunRecords]
  <2>1. proc[p].transition \in Handoffs
    BY <1>0, <1>4 DEF At, WellPlaced, Transitional
  <2>2. CASE UNCHANGED run
    BY <1>0, <2>2
  <2>3. ASSUME NEW r \in Runs,
               run' = [run EXCEPT ![r].admitted = Append(@, proc[p].transition)]
        PROVE  run' \in [Runs -> RunRecords]
    <3>0. Append(run[r].admitted, proc[p].transition) \in Seq(Handoffs)
      BY <1>0, <2>1 DEF RunRecords
    <3>1. [run[r] EXCEPT !.admitted = Append(@, proc[p].transition)] \in RunRecords
      BY <1>0, <3>0 DEF RunRecords
    <3>2. run' = [run EXCEPT ![r] = [run[r] EXCEPT !.admitted = Append(@, proc[p].transition)]]
      BY <1>0, <2>3 DEF RunRecords
    <3> QED
      BY <1>0, <3>1, <3>2
  <2> QED
    BY <1>4, <2>2, <2>3 DEF AdmitSuccession, Persist, Live, Durable
<1> QED
  BY <1>0, <1>1, <1>2, <1>3, <1>4, RunStep

LEMMA AuthorityTypeStep ==
  ASSUME TypeOK, PlaceOK, [Next]_vars
  PROVE  /\ authority' \in Authorities \cup {None}
         /\ pointer' \in Generations /\ trusted' \in Generations
<1>0. /\ authority \in Authorities \cup {None}
      /\ pointer \in Generations /\ trusted \in Generations
      /\ \A q \in Processes : WellPlaced(proc[q]) /\ proc[q] \in ProcessType
  BY DEF TypeOK, PlaceOK
<1>1. CASE UNCHANGED <<authority, pointer, trusted>>
  BY <1>0, <1>1
<1>2. CASE TrustedMainAdvances
  BY <1>0, <1>2, HandoffAssumption DEF TrustedMainAdvances, Generations
<1>3. CASE ReadoptController
  BY <1>0, <1>3 DEF ReadoptController, Authorities
<1>4. CASE ActivateReadoptedGeneration
  <2>1. authority \in Authorities
    BY <1>0, <1>4 DEF ActivateReadoptedGeneration
  <2>2. authority.generation \in Generations
    BY <2>1 DEF Authorities, Handoffs, Successor
  <2> QED
    BY <1>0, <1>4, <2>2 DEF ActivateReadoptedGeneration
<1>5. ASSUME NEW p \in Processes, ActivateControllerHandoff(p)
      PROVE  UNCHANGED <<pointer, trusted>> /\ authority' \in Authorities
  <2>1. proc[p].transition \in Handoffs
    BY <1>0, <1>5 DEF ActivateControllerHandoff, At, WellPlaced, Transitional
  <2> QED
    BY <1>5, <2>1 DEF ActivateControllerHandoff, Authorities
<1>6. ASSUME NEW p \in Processes, ActivateControllerGeneration(p) \/ RecoverActivated(p)
      PROVE  UNCHANGED <<authority, trusted>> /\ pointer' \in Generations
  BY <1>0, <1>6 DEF ActivateControllerGeneration, RecoverActivated, ProcessType
<1> QED
  BY <1>0, <1>1, <1>2, <1>3, <1>4, <1>5, <1>6, AuthorityStep

LEMMA RoleTypeStep ==
  ASSUME TypeOK, [Next]_vars
  PROVE  role' \in Processes \cup {None}
<1>0. role \in Processes \cup {None}
  BY DEF TypeOK
<1>1. ASSUME NEW p \in Processes, NEW from, NEW to, NEW next,
             Exit(p) \/ Persist(p, from, to, next)
      PROVE  role' \in Processes \cup {None}
  BY <1>0, <1>1 DEF Exit, Persist
<1>2. ASSUME NEW p \in Processes,
             \/ Resolve(p) \/ SettleUpdate(p) \/ (\E q \in Processes : Launch(p, q))
             \/ HoldAdmission(p) \/ Quiesced(p) \/ Evaluate(p)
             \/ Proceed(p) \/ EnableWorkAdmission(p)
             \/ QuiesceTimeout(p) \/ BeginSubmit(p) \/ (\E r \in Runs : StartTurn(p, r))
             \/ (\E r \in Runs : CommitSubmit(p, r) \/ EndTurn(p, r))
             \/ SettleInterrupted(p) \/ Drain(p) \/ Revalidate(p)
             \/ ActivateControllerHandoff(p) \/ ActivateControllerGeneration(p)
             \/ RecoverActivated(p)
      PROVE  role' = role
  BY <1>2 DEF Resolve, SettleUpdate, Launch, HoldAdmission, Quiesced, Evaluate, Abandon,
     Proceed, EnableWorkAdmission, QuiesceTimeout, CommitSubmit, EndTurn, BeginSubmit,
     StartTurn, SettleInterrupted, Drain, Revalidate, ActivateControllerHandoff,
     ActivateControllerGeneration, RecoverActivated
<1>3. ASSUME NEW p \in Processes,
             \/ Leave(p) \/ Orphaned(p) \/ Refused(p) \/ Crash(p) \/ Start(p)
             \/ AcquireControllerRole(p) \/ ReleaseOwnership(p)
      PROVE  role' \in Processes \cup {None}
  BY <1>0, <1>1, <1>3 DEF Leave, Orphaned, Refused, Crash, Start, AcquireControllerRole,
     ReleaseOwnership
<1>4. ASSUME NEW p \in Processes,
             BeginHandoff(p) \/ RecordReleased(p) \/ TakeOver(p) \/ AdmitSuccession(p)
      PROVE  role' \in Processes \cup {None}
  BY <1>0, <1>1, <1>4 DEF BeginHandoff, RecordReleased, TakeOver, AdmitSuccession
<1>5. ASSUME \/ \E r \in Runs : OperatorActs(r)
             \/ TrustedMainAdvances \/ ReadoptController \/ ActivateReadoptedGeneration
             \/ UNCHANGED vars
      PROVE  role' = role
  BY <1>5 DEF OperatorActs, OperatorAppends, CancelRun, PutCancelledRun, TrustedMainAdvances, ReadoptController, ActivateReadoptedGeneration, vars
<1> QED
  BY <1>0, <1>2, <1>3, <1>4, <1>5 DEF Next, Undisturbed, Step, Environment, Restart

LEMMA TypeStep ==
  ASSUME TypeOK, PlaceOK, [Next]_vars
  PROVE  TypeOK'
<1>1. \A p \in Processes : proc'[p] \in ProcessType
  BY PlaceStep DEF PlaceOK
<1>2. \A p \in Processes :
       /\ proc'[p].pc \in Pcs /\ proc'[p].generation \in Generations
       /\ proc'[p].gate \in {"pending", "open", "held", "closed"}
       /\ proc'[p].driving \subseteq Runs /\ proc'[p].child \in Processes \cup {None}
       /\ proc'[p].transition \in Handoffs \cup {None}
  BY <1>1 DEF ProcessType
<1>3. RecordsOK
  BY DEF TypeOK, RecordsOK, WellRecorded, HandoffRecords
<1>4. /\ handoff' \in [Handoffs -> HandoffRecords]
      /\ \A h \in Handoffs : handoff'[h].owner = None <=> handoff'[h].phase = "none"
      /\ recent' \subseteq Handoffs \X Handoffs
  BY <1>3, RecordsStep DEF RecordsOK, WellRecorded
<1> QED
  BY <1>2, <1>4, RunTypeStep, AuthorityTypeStep, RoleTypeStep
     DEF TypeOK, RunRecords, HandoffRecords

-----------------------------------------------------------------------------
(* What the holder of the role decides on stays as it is.                   *)

LEMMA OneHolder ==
  ASSUME RoleOK, NEW p \in Processes, NEW q \in Processes,
         proc[p].pc \in Holding, proc[q].pc \in Holding
  PROVE  p = q /\ role = p /\ role # None
BY HandoffAssumption DEF RoleOK, Held

(* The positions between a decision and what it leads to, and the steps     *)
(* that take a process there.                                               *)
Deciding == {"begin", "drain", "release", "admit", "prove"}
Decides(q) ==
  \/ Evaluate(q) \/ BeginHandoff(q) \/ Drain(q) \/ Revalidate(q) \/ AdmitSuccession(q)

LEMMA NotDeciding ==
  \A pc \in {"dead", "resolve", "settle", "serve", "hold", "quiet", "evaluate", "released",
             "proceed", "leave", "inert", "told", "takeOver", "revalidate", "project",
             "enable", "refused"} : pc \notin Deciding
BY DEF Deciding

LEMMA DecidingMotion ==
  ASSUME PlaceOK, RoleOK, [Next]_vars, NEW q \in Processes, proc'[q].pc \in Deciding
  PROVE  proc'[q] = proc[q] \/ Decides(q)
<1> SUFFICES ASSUME ~Decides(q) PROVE proc'[q] = proc[q]
  OBVIOUS
<1>0. \A p \in Processes : Held(p, proc[p], role) /\ proc[p] \in ProcessType
  BY DEF PlaceOK, RoleOK
<1>u. ASSUME NEW p \in Processes, NEW x, Update(p, x), x.pc \notin Deciding
      PROVE  proc'[q] = proc[q]
  BY <1>u DEF Update, PlaceOK
<1>g. ASSUME NEW p \in Processes, NEW pc, Goto(p, pc), pc \notin Deciding
      PROVE  proc'[q] = proc[q]
  BY <1>0, <1>g DEF Goto, Update, PlaceOK, ProcessType
<1>x. ASSUME NEW p \in Processes, Exit(p) PROVE proc'[q] = proc[q]
  BY <1>x, <1>u, NotDeciding DEF Exit, Dead
<1>a. ASSUME NEW p \in Processes, Abandon(p) PROVE proc'[q] = proc[q]
  BY <1>0, <1>a, NotDeciding DEF Abandon, Dead, PlaceOK, ProcessType
<1>d. ASSUME NEW p \in Processes, p # q, NEW x, Update(p, x) PROVE proc'[q] = proc[q]
  BY <1>d DEF Update, PlaceOK
<1>1. ASSUME NEW p \in Processes, Start(p) PROVE proc'[q] = proc[q]
  BY <1>1, <1>u, NotDeciding DEF Start, Dead
<1>2. ASSUME NEW p \in Processes, Resolve(p) \/ SettleInterrupted(p) PROVE proc'[q] = proc[q]
  <2>1. Admitted(p).pc \notin Deciding /\ [Admitted(p) EXCEPT !.seen = None].pc \notin Deciding
    BY <1>0, NotDeciding DEF Admitted, Serving, Dead, ProcessType
  <2>2. \A s : [proc[p] EXCEPT !.pc = "settle", !.seen = s].pc \notin Deciding
    BY <1>0, NotDeciding DEF ProcessType
  <2> QED
    BY <1>2, <1>u, <2>1, <2>2 DEF Resolve, SettleInterrupted
<1>3. ASSUME NEW p \in Processes, BeginSubmit(p) \/ \E r \in Runs : StartTurn(p, r)
      PROVE  proc'[q] = proc[q]
  <2>1. \A f : /\ [proc[p] EXCEPT !.admitting = f].pc = proc[p].pc
               /\ [proc[p] EXCEPT !.driving = f].pc = proc[p].pc
    BY <1>0 DEF ProcessType
  <2>2. proc[p].pc \notin Deciding
    BY <1>0, <1>3, NotDeciding DEF BeginSubmit, StartTurn, At, Held
  <2> QED
    BY <1>3, <1>u, <2>1, <2>2 DEF BeginSubmit, StartTurn
<1>4. ASSUME NEW p \in Processes, \E r \in Runs : CommitSubmit(p, r) \/ EndTurn(p, r)
      PROVE  proc'[q] = proc[q]
  <2>1. \A f : /\ [proc[p] EXCEPT !.admitting = f].pc = proc[p].pc
               /\ [proc[p] EXCEPT !.driving = f].pc = proc[p].pc
    BY <1>0 DEF ProcessType
  <2>2. proc[p].pc \notin Deciding
    BY <1>0, <1>4, NotDeciding DEF CommitSubmit, EndTurn, Held
  <2> QED
    BY <1>4, <1>u, <2>1, <2>2 DEF CommitSubmit, EndTurn
<1>5. ASSUME NEW p \in Processes, SettleUpdate(p) PROVE proc'[q] = proc[q]
  <2>1. \A f : [proc[p] EXCEPT !.update = f].pc = proc[p].pc
    BY <1>0 DEF ProcessType
  <2>2. PICK f : Update(p, [proc[p] EXCEPT !.update = f])
    BY <1>5, Zenon DEF SettleUpdate
  <2>3. proc[p].pc = "serve"
    BY <1>5 DEF SettleUpdate, At
  <2>4. [proc[p] EXCEPT !.update = f].pc \notin Deciding
    BY <2>1, <2>3, NotDeciding
  <2> QED
    BY <1>u, <2>2, <2>4
<1>6. ASSUME NEW p \in Processes, \E r \in Processes : Launch(p, r) PROVE proc'[q] = proc[q]
  <2>1. PICK r \in Processes : Launch(p, r)
    BY <1>6
  <2>2. PICK x, y : /\ proc' = [proc EXCEPT ![p] = x, ![r] = y]
                    /\ x.pc = "hold" /\ y.pc = "inert"
    <3> DEFINE h == <<proc[p].generation, trusted>>
               x == [proc[p] EXCEPT !.pc = "hold", !.child = r, !.transition = h]
               y == [Dead EXCEPT !.pc = "inert", !.generation = trusted, !.transition = h]
    <3>1. x.pc = "hold" /\ y.pc = "inert"
      BY <1>0 DEF ProcessType, Dead
    <3>2. proc' = [proc EXCEPT ![p] = x, ![r] = y]
      BY <2>1 DEF Launch
    <3> QED
      BY <3>1, <3>2, Zenon
  <2> QED
    BY <2>2, NotDeciding DEF PlaceOK
<1>7. ASSUME NEW p \in Processes, HoldAdmission(p) PROVE proc'[q] = proc[q]
  <2>1. [proc[p] EXCEPT !.gate = "held", !.pc = "quiet"].pc = "quiet"
    BY <1>0 DEF ProcessType
  <2> QED
    BY <1>7, <1>u, <2>1, NotDeciding DEF HoldAdmission
<1>8. ASSUME NEW p \in Processes,
             \/ Quiesced(p) \/ ReleaseOwnership(p) \/ AcquireControllerRole(p)
             \/ ActivateControllerHandoff(p) \/ ActivateControllerGeneration(p)
      PROVE  proc'[q] = proc[q]
  BY <1>8, <1>g, <1>x, NotDeciding DEF Quiesced, ReleaseOwnership, AcquireControllerRole,
     ActivateControllerHandoff, ActivateControllerGeneration
<1>9. ASSUME NEW p \in Processes, RecordReleased(p) \/ TakeOver(p)
      PROVE  proc'[q] = proc[q]
  BY <1>9, <1>g, <1>x, NotDeciding DEF RecordReleased, TakeOver, Persist
<1>10. ASSUME NEW p \in Processes, Evaluate(p) PROVE proc'[q] = proc[q]
  BY <1>10, <1>a, <1>d DEF Evaluate, Decides
<1>11. ASSUME NEW p \in Processes,
              BeginHandoff(p) \/ Drain(p) \/ Revalidate(p) \/ AdmitSuccession(p)
       PROVE  proc'[q] = proc[q]
  <2>1. p # q
    BY <1>11 DEF Decides
  <2>2. CASE BeginHandoff(p) \/ Drain(p) \/ Revalidate(p)
    BY <1>d, <2>1, <2>2 DEF BeginHandoff, Drain, Revalidate, Goto, Exit
  <2>3. CASE AdmitSuccession(p)
    BY <1>d, <2>1, <2>3 DEF AdmitSuccession, Persist, Goto, Exit
  <2> QED
    BY <1>11, <2>2, <2>3
<1>12. ASSUME NEW p \in Processes, Proceed(p) PROVE proc'[q] = proc[q]
  BY <1>0, <1>12, NotDeciding DEF Proceed, PlaceOK, ProcessType
<1>13. ASSUME NEW p \in Processes, Leave(p) \/ Orphaned(p) \/ Refused(p) \/ Crash(p)
       PROVE  proc'[q] = proc[q]
  BY <1>13, <1>x DEF Leave, Orphaned, Refused, Crash
<1>14. ASSUME NEW p \in Processes, EnableWorkAdmission(p) PROVE proc'[q] = proc[q]
  BY <1>14, <1>u, NotDeciding DEF EnableWorkAdmission, Serving, Dead
<1>15. ASSUME NEW p \in Processes, QuiesceTimeout(p) PROVE proc'[q] = proc[q]
  BY <1>15, <1>a DEF QuiesceTimeout
<1>16. ASSUME \/ \E r \in Runs : OperatorActs(r)
              \/ \E p \in Processes : RecoverActivated(p)
              \/ TrustedMainAdvances \/ ReadoptController \/ ActivateReadoptedGeneration
              \/ UNCHANGED vars
       PROVE  proc'[q] = proc[q]
  BY <1>16 DEF OperatorActs, OperatorAppends, CancelRun, PutCancelledRun, RecoverActivated, TrustedMainAdvances, ReadoptController,
     ActivateReadoptedGeneration, vars
<1> QED
  BY <1>1, <1>2, <1>3, <1>4, <1>5, <1>6, <1>7, <1>8, <1>9, <1>10, <1>11, <1>12, <1>13,
     <1>14, <1>15, <1>16
     DEF Next, Undisturbed, Step, Environment, Restart

(* What the deciding steps make of the process that takes them. *)
LEMMA Edits ==
  ASSUME NEW x \in ProcessType, NEW g, NEW c, NEW d
  PROVE  /\ [x EXCEPT !.pc = c, !.decided = d].pc = c
         /\ [x EXCEPT !.pc = c, !.decided = d].decided = d
         /\ [x EXCEPT !.pc = c, !.decided = d].transition = x.transition
         /\ [x EXCEPT !.gate = g, !.pc = c].pc = c
         /\ [x EXCEPT !.gate = g, !.pc = c].decided = x.decided
         /\ [x EXCEPT !.gate = g, !.pc = c].transition = x.transition
BY DEF ProcessType

LEMMA EvaluateEffect ==
  ASSUME PlaceOK, NEW q \in Processes, Evaluate(q)
  PROVE  /\ UNCHANGED run
         /\ \/ proc'[q].pc \in {"serve", "dead"}
            \/ proc'[q].pc = "begin" /\ proc'[q].decided = Decided
<1>0. proc[q] \in ProcessType /\ proc \in [Processes -> ProcessType]
  BY DEF PlaceOK
<1>1. CASE Abandon(q)
  <2>1. proc'[q].pc \in {"serve", "dead"}
    BY <1>0, <1>1 DEF Abandon, Dead, ProcessType
  <2> QED
    BY <1>1, <2>1 DEF Abandon, Durable
<1>2. CASE /\ Update(q, [proc[q] EXCEPT !.pc = "begin", !.decided = Decided])
           /\ UNCHANGED <<role, Durable>>
  <2>1. proc'[q] = [proc[q] EXCEPT !.pc = "begin", !.decided = Decided] /\ UNCHANGED run
    BY <1>0, <1>2 DEF Update, Durable
  <2>2. proc'[q].pc = "begin" /\ proc'[q].decided = Decided
    BY <1>0, <2>1, Edits
  <2> QED
    BY <2>1, <2>2
<1> QED
  BY <1>1, <1>2 DEF Evaluate

LEMMA BeginEffect ==
  ASSUME PlaceOK, NEW q \in Processes, BeginHandoff(q)
  PROVE  /\ UNCHANGED run /\ proc[q].pc = "begin"
         /\ \/ proc'[q].pc = "dead"
            \/ /\ proc'[q].pc = "drain" /\ proc'[q].transition = proc[q].transition
               /\ \E e : PutControllerHandoff(proc[q].transition,
                    Advance(proc[q].transition,
                            [NoHandoff EXCEPT !.decided = proc[q].decided], "prepared"), e)
<1>0. proc[q] \in ProcessType /\ proc \in [Processes -> ProcessType]
  BY DEF PlaceOK
<1>1. UNCHANGED run /\ proc[q].pc = "begin"
  BY DEF BeginHandoff, At, Durable
<1>2. CASE Exit(q)
  BY <1>0, <1>1, <1>2 DEF Exit, Update, Dead
<1>3. CASE ~Exit(q)
  <2>1. proc'[q] = [proc[q] EXCEPT !.pc = "drain", !.decided = {}]
    BY <1>0, <1>3 DEF BeginHandoff, Update
  <2>2. proc'[q].pc = "drain" /\ proc'[q].transition = proc[q].transition
    BY <1>0, <2>1, Edits
  <2>3. \E e : PutControllerHandoff(proc[q].transition,
                 Advance(proc[q].transition,
                         [NoHandoff EXCEPT !.decided = proc[q].decided], "prepared"), e)
    BY <1>3 DEF BeginHandoff
  <2> QED
    BY <1>1, <2>2, <2>3
<1> QED
  BY <1>2, <1>3

LEMMA DrainEffect ==
  ASSUME PlaceOK, NEW q \in Processes, Drain(q)
  PROVE  /\ proc[q].pc = "drain" /\ proc'[q].pc = "release"
         /\ proc'[q].transition = proc[q].transition /\ proc'[q].decided = proc[q].decided
<1>1. proc[q] \in ProcessType /\ proc[q].pc = "drain"
  BY DEF PlaceOK, Drain, At
<1>2. proc'[q] = [proc[q] EXCEPT !.gate = "closed", !.pc = "release"]
  BY DEF Drain, Update, PlaceOK
<1> QED
  BY <1>1, <1>2, Edits

(* An authority that governs is replaced only cold or by the successor that *)
(* found its predecessor governing.                                         *)
LEMMA GovernStep ==
  ASSUME TypeOK, PlaceOK, RoleOK, GovernOK, [Next]_vars
  PROVE  GovernOK'
<1>0. \A q \in Processes : WellPlaced(proc[q]) /\ proc[q] \in ProcessType
  BY DEF PlaceOK
<1>t. trusted \in Nat /\ trusted' \in Nat /\ trusted <= trusted'
  <2>1. trusted \in Generations /\ trusted' \in Generations
    BY AuthorityTypeStep DEF TypeOK
  <2> QED
    BY <2>1, AuthorityStep
       DEF Generations, TrustedMainAdvances, ReadoptController, ActivateReadoptedGeneration,
       ActivateControllerHandoff, ActivateControllerGeneration, RecoverActivated
<1>a. authority # None => authority.generation \in Nat
  BY DEF TypeOK, Authorities, Generations, Handoffs, Successor
<1>1. authority' = authority \/ ReadoptController
        \/ \E p \in Processes : ActivateControllerHandoff(p)
  BY AuthorityStep
     DEF TrustedMainAdvances, ActivateReadoptedGeneration, ActivateControllerGeneration,
     RecoverActivated
<1>2. authority' # None => authority'.generation <= trusted'
  <2>1. CASE authority' = authority
    BY <1>t, <1>a, <2>1 DEF GovernOK
  <2>2. CASE ReadoptController
    BY <1>t, <2>2 DEF ReadoptController
  <2>3. ASSUME NEW p \in Processes, ActivateControllerHandoff(p)
        PROVE  authority'.generation <= trusted'
    <3>1. proc[p].transition \in Handoffs /\ Successor(proc[p].transition) <= trusted
      BY <1>0, <2>3 DEF ActivateControllerHandoff, At, WellPlaced, Transitional
    <3>2. authority'.generation = Successor(proc[p].transition) /\ trusted' = trusted
      BY <2>3 DEF ActivateControllerHandoff
    <3> QED
      BY <3>1, <3>2
  <2> QED
    BY <1>1, <2>1, <2>2, <2>3
<1>3. ASSUME NEW q \in Processes, proc'[q].pc \in {"admit", "prove"}, authority' # None
      PROVE  authority'.generation = Predecessor(proc'[q].transition)
  <2>0. proc'[q] = proc[q] \/ Decides(q)
    BY <1>3, DecidingMotion DEF Deciding
  <2>1. CASE proc'[q] = proc[q]
    <3>1. proc[q].pc \in Holding
      BY <1>3, <2>1, Holders
    <3>2. ~ReadoptController
      BY <3>1, OneHolder DEF ReadoptController
    <3>3. ASSUME NEW p \in Processes, ActivateControllerHandoff(p) PROVE FALSE
      <4>1. p = q
        BY <3>1, <3>3, Holders, OneHolder DEF ActivateControllerHandoff, At
      <4>2. proc'[q].pc = "project"
        BY <1>0, <3>3, <4>1 DEF ActivateControllerHandoff, Goto, Update, PlaceOK, ProcessType
      <4> QED
        BY <1>3, <4>2
    <3> QED
      BY <1>1, <1>3, <2>1, <3>2, <3>3 DEF GovernOK
  <2>2. CASE Evaluate(q) \/ BeginHandoff(q) \/ Drain(q)
    <3>1. proc'[q].pc \in {"serve", "dead", "begin", "drain", "release"}
      BY <2>2, EvaluateEffect, BeginEffect, DrainEffect
    <3> QED
      BY <1>3, <3>1
  <2>3. CASE Revalidate(q)
    <3>1. proc'[q].pc # "refused"
      BY <1>3
    <3>2. /\ RevalidateAcquiredHandoff(proc[q].transition) /\ authority' = authority
          /\ proc'[q].transition = proc[q].transition
      BY <1>0, <2>3, <3>1 DEF Revalidate, Goto, Update, PlaceOK, ProcessType
    <3> QED
      BY <1>3, <3>2 DEF RevalidateAcquiredHandoff
  <2>4. CASE AdmitSuccession(q)
    <3>1. proc[q].pc = "admit" /\ authority' = authority
      BY <2>4 DEF AdmitSuccession, At, Persist, Durable
    <3>2. proc'[q].transition = proc[q].transition
      BY <1>0, <1>3, <2>4
         DEF AdmitSuccession, Persist, Goto, Exit, Update, Dead, PlaceOK, ProcessType
    <3> QED
      BY <1>3, <3>1, <3>2 DEF GovernOK
  <2> QED
    BY <2>0, <2>1, <2>2, <2>3, <2>4 DEF Decides
<1> QED
  BY <1>2, <1>3 DEF GovernOK

(* While a process is about to commit a transition no controller adds to a  *)
(* journal: operators append, and runs end.                                 *)
LEMMA RunsStill ==
  ASSUME TypeOK, PlaceOK, RoleOK, [Next]_vars, NEW q \in Processes,
         proc[q].pc \in {"begin", "drain", "release"}, NEW r \in Live'
  PROVE  r \in Live /\ Worked(r)' = Worked(r)
<1>0. /\ proc[q].pc \in Holding /\ r \in Runs /\ run'[r].state \in {"live", "cancelled"}
      /\ run \in [Runs -> RunRecords]
  BY Holders DEF Live, TypeOK, RunRecords
<1>1. ASSUME NEW p \in Processes, NEW x \in Runs, CommitSubmit(p, x) \/ EndTurn(p, x)
      PROVE  FALSE
  <2>1. proc[p].pc \in {"serve", "hold", "quiet"}
    BY <1>1 DEF CommitSubmit, EndTurn, RoleOK, Held
  <2> QED
    BY <1>0, <2>1, Holders, OneHolder
<1>2. ASSUME NEW p \in Processes, At(p, "admit") PROVE FALSE
  BY <1>0, <1>2, Holders, OneHolder DEF At
<1>3. ASSUME NEW x \in Runs, OperatorActs(x)
      PROVE  r \in Live /\ Worked(r)' = Worked(r)
  <2>1. run[r] \in RunRecords /\ run[x] \in RunRecords
    BY <1>0
  <2>2. CASE x # r
    BY <1>0, <1>3, <2>2
       DEF OperatorActs, OperatorAppends, CancelRun, PutCancelledRun, Live, Worked
  <2>3. CASE x = r /\ PutCancelledRun(r)
    BY <1>0, <2>3 DEF PutCancelledRun, Ended
  <2>4. CASE x = r /\ (OperatorAppends(r) \/ CancelRun(r))
    <3>1. r \in Live
      BY <1>0, <2>4 DEF OperatorAppends, CancelRun, Live
    <3>2. run'[r].work = run[r].work /\ run'[r].admitted = run[r].admitted
      BY <1>0, <2>1, <2>4 DEF OperatorAppends, CancelRun, RunRecords
    <3> QED
      BY <3>1, <3>2 DEF Worked
  <2> QED
    BY <1>3, <2>2, <2>3, <2>4 DEF OperatorActs
<1>4. CASE run' = run
  BY <1>0, <1>4 DEF Live, Worked
<1> QED
  BY <1>1, <1>2, <1>3, <1>4, RunStep

(* What is decided on is left in the record by every later phase of a       *)
(* transition that is not settled, and nobody settles one before the role   *)
(* is released.                                                             *)
LEMMA DecisionKept ==
  ASSUME TypeOK, PlaceOK, RoleOK, [Next]_vars, NEW q \in Processes,
         proc[q].pc \in {"begin", "drain", "release"},
         \A p \in Processes : ~BeginHandoff(p), NEW h \in Handoffs
  PROVE  handoff'[h].decided = handoff[h].decided
<1>0. handoff \in [Handoffs -> HandoffRecords]
  BY DEF TypeOK, HandoffRecords
<1>1. ASSUME NEW p \in Processes, Settles(p) PROVE FALSE
  <2>1. proc[p].pc \in {"settle", "revalidate", "admit", "prove"}
    BY <1>1 DEF Settles, SettleInterrupted, Revalidate, AdmitSuccession,
       ActivateControllerHandoff, At
  <2> QED
    BY <2>1, Holders, OneHolder
<1>2. CASE AdvancesOn
  <2>1. PICK g \in Handoffs, to \in Phases \ {"none", "failed", "activated"} :
          PutControllerHandoff(g, Advance(g, handoff[g], to), handoff[g].phase)
    BY <1>2 DEF AdvancesOn
  <2>2. Advance(g, handoff[g], to).decided = handoff[g].decided
    BY <1>0, AdvanceWell
  <2> QED
    BY <1>0, <2>1, <2>2 DEF PutControllerHandoff
<1> QED
  BY <1>1, <1>2, UnsettledStep

(* Every step leaves standing what a transition is decided on. *)
LEMMA StandsStep ==
  ASSUME TypeOK, PlaceOK, RoleOK, DecidedStateStands, [Next]_vars
  PROVE  DecidedStateStands'
<1>0. \A p \in Processes : WellPlaced(proc[p]) /\ proc[p] \in ProcessType
  BY DEF PlaceOK
<1> SUFFICES ASSUME NEW q \in Processes, proc'[q].pc \in {"begin", "drain", "release"},
                    NEW r \in Live'
             PROVE  /\ proc'[q].pc = "begin" =>
                         \E d \in proc'[q].decided : d[1] = r /\ d[2].work = Worked(r)'
                    /\ proc'[q].pc \in {"drain", "release"} =>
                         \E d \in handoff'[proc'[q].transition].decided :
                           d[1] = r /\ d[2].work = Worked(r)'
  BY DEF DecidedStateStands, WorkStands, At
<1>1. proc'[q] = proc[q] \/ Decides(q)
  BY DecidingMotion DEF Deciding
<1>2. CASE Evaluate(q)
  <2>1. UNCHANGED run /\ proc'[q].pc = "begin" /\ proc'[q].decided = Decided
    BY <1>2, EvaluateEffect
  <2>2. r \in Live /\ Worked(r)' = Worked(r)
    BY <2>1 DEF Live, Worked
  <2>3. <<r, EventCount(r)>> \in Decided /\ EventCount(r).work = Worked(r)
    BY <2>2 DEF Decided, EventCount
  <2>4. \E d \in Decided : d[1] = r /\ d[2].work = Worked(r)
    BY <2>3
  <2> QED
    BY <2>1, <2>2, <2>4
<1>3. CASE BeginHandoff(q)
  <2> DEFINE h == proc[q].transition
  <2>1. /\ UNCHANGED run /\ At(q, "begin") /\ proc'[q].pc = "drain"
        /\ proc'[q].transition = h
        /\ \E e : PutControllerHandoff(h,
             Advance(h, [NoHandoff EXCEPT !.decided = proc[q].decided], "prepared"), e)
    BY <1>3, BeginEffect DEF At
  <2>2. h \in Handoffs
    BY <1>0, <2>1 DEF At, WellPlaced, Transitional
  <2>3. handoff'[h].decided = proc[q].decided
    BY <2>1, <2>2 DEF PutControllerHandoff, Advance, NoHandoff, TypeOK
  <2>4. r \in Live /\ Worked(r)' = Worked(r)
    BY <2>1 DEF Live, Worked
  <2>5. \E d \in proc[q].decided : d[1] = r /\ d[2].work = Worked(r)
    BY <2>1, <2>4 DEF DecidedStateStands, WorkStands
  <2> QED
    BY <2>1, <2>3, <2>4, <2>5
<1>4. CASE Revalidate(q) \/ AdmitSuccession(q)
  <2>1. At(q, "revalidate") \/ At(q, "admit")
    BY <1>4 DEF Revalidate, AdmitSuccession
  <2>2. proc'[q].pc \in {"admit", "refused", "prove", "dead"}
    BY <1>0, <1>4
       DEF Revalidate, AdmitSuccession, At, Persist, Goto, Exit, Update, Dead, PlaceOK, ProcessType
  <2> QED
    BY <2>2
<1>5. CASE (proc'[q] = proc[q] \/ Drain(q)) /\ ~BeginHandoff(q)
  <2>1. /\ proc[q].pc \in {"begin", "drain", "release"}
        /\ proc'[q].transition = proc[q].transition /\ proc'[q].decided = proc[q].decided
        /\ proc'[q].pc = "begin" => proc[q].pc = "begin"
        /\ proc'[q].pc \in {"drain", "release"} => proc[q].pc \in {"drain", "release"}
    BY <1>5, DrainEffect
  <2>2. r \in Live /\ Worked(r)' = Worked(r)
    BY <2>1, RunsStill
  <2>3. \A p \in Processes : ~BeginHandoff(p)
    BY <1>5, <2>1, Holders, OneHolder DEF BeginHandoff, At
  <2>4. proc[q].transition \in Handoffs
    BY <1>0, <2>1 DEF WellPlaced, Transitional
  <2>5. handoff'[proc[q].transition].decided = handoff[proc[q].transition].decided
    BY <2>1, <2>3, <2>4, DecisionKept
  <2> QED
    BY <2>1, <2>2, <2>5 DEF DecidedStateStands, WorkStands, At
<1> QED
  BY <1>1, <1>2, <1>3, <1>4, <1>5 DEF Decides

(* One live controller of the first generation, and nothing on record. *)
LEMMA HandoffInitially ==
  ASSUME Init
  PROVE  HandoffInv
<1>1. PICK p \in Processes :
        proc = [q \in Processes |-> IF q = p THEN Serving(1) ELSE Dead] /\ role = p
  BY DEF Init
<1>2. /\ trusted = 1 /\ pointer = 1 /\ authority = None /\ recent = {}
      /\ handoff = [h \in Handoffs |-> NoHandoff]
      /\ run = [r \in Runs |-> [Ended EXCEPT !.state = "none"]]
  BY DEF Init
<1>3. 1 \in Generations /\ trusted \in Generations
  BY <1>2, HandoffAssumption DEF Generations
<1>4. PlaceOK
  BY <1>1, <1>3, DeadPlaced DEF PlaceOK, WellPlaced
<1>5. RoleOK
  BY <1>1, Holders DEF RoleOK, Held, Serving, Dead
<1>6. GovernOK /\ DecidedStateStands
  BY <1>1, <1>2 DEF GovernOK, DecidedStateStands, At, Serving, Dead
<1>7. TypeOK
  <2>1. \A q \in Processes : proc[q] \in ProcessType
    BY <1>4 DEF PlaceOK
  <2>2. \A q \in Processes :
         /\ proc[q].pc \in Pcs /\ proc[q].generation \in Generations
         /\ proc[q].gate \in {"pending", "open", "held", "closed"}
         /\ proc[q].driving \subseteq Runs /\ proc[q].child \in Processes \cup {None}
         /\ proc[q].transition \in Handoffs \cup {None}
    BY <2>1 DEF ProcessType
  <2>3. /\ handoff \in [Handoffs -> HandoffRecords]
        /\ \A h \in Handoffs : handoff[h].owner = None <=> handoff[h].phase = "none"
    BY <1>2 DEF NoHandoff, HandoffRecords, Phases
  <2>4. [Ended EXCEPT !.state = "none"] \in RunRecords
    <3>1. <<>> \in Seq(Handoffs) /\ 0 \in 0 .. MaxWork /\ 0 \in 0 .. MaxTold
      BY HandoffAssumption
    <3> QED
      BY <1>3, <3>1 DEF Ended, RunRecords
  <2>5. /\ run \in [Runs -> RunRecords] /\ role \in Processes \cup {None}
        /\ recent \subseteq Handoffs \X Handoffs /\ authority \in Authorities \cup {None}
        /\ pointer \in Generations /\ trusted \in Generations
    BY <1>1, <1>2, <1>3, <2>4
  <2> QED
    BY <2>2, <2>3, <2>5 DEF TypeOK, RunRecords, HandoffRecords
<1> QED
  BY <1>4, <1>5, <1>6, <1>7 DEF HandoffInv

LEMMA HandoffStep == HandoffInv /\ [Next]_vars => HandoffInv'
BY PlaceStep, RoleStep, TypeStep, GovernStep, StandsStep DEF HandoffInv

(* HandoffInv is inductive: whatever is decided, dies, restarts or is       *)
(* re-adopted, by any number of processes.                                  *)
THEOREM HandoffInvAlways == Spec => []HandoffInv
<1>1. Init => HandoffInv
  BY HandoffInitially
<1> QED
  BY <1>1, HandoffStep, PTL DEF Spec

(* Records, processes and runs stay well formed, and a recorded transition  *)
(* always names the generation that recovers it (ControllerHandoff.Advance).*)
THEOREM HandoffTypeCorrect == Spec => []TypeOK
<1>1. HandoffInv => TypeOK
  BY DEF HandoffInv
<1> QED
  BY <1>1, HandoffInvAlways, PTL

(* At most one process admits work, the one that holds the controller role, *)
(* for any number of processes started, replaced and killed                 *)
(* (AcquireControllerRole, the work admission gate).                        *)
THEOREM OneAdmitsAlways == Spec => []OneAdmits
<1>1. HandoffInv => OneAdmits
  BY Holders DEF HandoffInv, RoleOK, Held, OneAdmits
<1> QED
  BY <1>1, HandoffInvAlways, PTL

(* Every run that is live when the predecessor commits a transition was     *)
(* decided on, and no controller has added to its journal since, whatever   *)
(* operators append meanwhile (QuiesceWorkForTransition).                   *)
THEOREM DecidedStateStandsAlways == Spec => []DecidedStateStands
<1>1. HandoffInv => DecidedStateStands
  BY DEF HandoffInv
<1> QED
  BY <1>1, HandoffInvAlways, PTL

(* No step replaces the governing generation by an earlier one: an          *)
(* activation because its successor revalidated under the role it still     *)
(* holds (RevalidateAcquiredHandoff), a re-adoption because trusted main    *)
(* never falls behind what governs (ReadoptController).                     *)
THEOREM AuthorityNeverRegressesAlways == Spec => AuthorityNeverRegresses
<1>1. HandoffInv /\ [Next]_vars =>
        [authority # None /\ authority' # authority =>
           authority'.generation >= authority.generation]_vars
  <2> SUFFICES ASSUME HandoffInv, [Next]_vars, authority # None, authority' # authority
               PROVE  authority'.generation >= authority.generation
    OBVIOUS
  <2>0. /\ TypeOK /\ PlaceOK /\ GovernOK
        /\ authority.generation <= trusted
    BY DEF HandoffInv, GovernOK
  <2>1. authority.generation \in Nat /\ trusted \in Nat
    BY <2>0 DEF TypeOK, Authorities, Generations, Handoffs, Successor
  <2>2. CASE ReadoptController
    BY <2>0, <2>1, <2>2 DEF ReadoptController
  <2>3. ASSUME NEW p \in Processes, ActivateControllerHandoff(p)
        PROVE  authority'.generation >= authority.generation
    <3>1. proc[p].transition \in Handoffs /\ proc[p].pc = "prove"
      BY <2>0, <2>3 DEF ActivateControllerHandoff, At, PlaceOK, WellPlaced, Transitional
    <3>2. authority.generation = Predecessor(proc[p].transition)
      BY <2>0, <3>1 DEF GovernOK
    <3>3. authority'.generation = Successor(proc[p].transition)
      BY <2>3 DEF ActivateControllerHandoff
    <3> QED
      BY <3>1, <3>2, <3>3 DEF Handoffs, Predecessor, Successor, Generations
  <2> QED
    BY <2>0, <2>2, <2>3, AuthorityStep
       DEF TrustedMainAdvances, ActivateReadoptedGeneration, ActivateControllerGeneration,
       RecoverActivated
<1> QED
  BY <1>1, HandoffInvAlways, PTL DEF Spec, AuthorityNeverRegresses
=============================================================================
