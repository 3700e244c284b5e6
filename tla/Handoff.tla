------------------------------- MODULE Handoff -------------------------------
(***************************************************************************)
(* Controller processes that replace each other over one state directory:  *)
(* serve (cmd/zenchron-engineering/serve.go), the controller role, the     *)
(* work admission gate, the durable handoff records and the authority they *)
(* establish, the launch of a successor and both halves of the transition  *)
(* (runtime/controller_*.go, runtime/work_admission.go), the maintenance   *)
(* of the stable entrypoint and the operator's re-adoption.                *)
(*                                                                         *)
(* A generation is the revision of trusted main a controller is built      *)
(* from; later ones descend from earlier ones, all are adopted builds      *)
(* under one configuration, and a process proves the generation it is.     *)
(* A process can die at any step.                                          *)
(***************************************************************************)
EXTENDS Integers, FiniteSets, Sequences

CONSTANTS
  Processes,      \* slots for live controller processes
  Runs,           \* engineering runs
  MaxGeneration,  \* bound: the last revision of trusted main
  MaxWork,        \* bound: events a run's work appends
  MaxTold,        \* bound: events operators append to a run
  None

Generations == 1 .. MaxGeneration

(* A transition's id is derived from its two parties (handoffID). *)
Handoffs == {h \in Generations \X Generations : h[1] < h[2]}
Predecessor(h) == h[1]
Successor(h) == h[2]

ASSUME HandoffAssumption ==
  /\ MaxGeneration \in Nat \ {0} /\ MaxWork \in Nat /\ MaxTold \in Nat
  /\ None \notin Processes \cup Generations \cup Handoffs

VARIABLES
  proc,       \* the processes
  role,       \* the process that holds the controller role, or None
  handoff,    \* the handoff records
  recent,     \* pairs of recorded handoffs, the first updated after the second
  authority,  \* the controller authority that governs, or None
  pointer,    \* the generation the stable entrypoint reaches
  run,        \* the runs' rows and journals
  trusted     \* trusted main

vars == <<proc, role, handoff, recent, authority, pointer, run, trusted>>

-----------------------------------------------------------------------------
Phases ==
  {"none", "prepared", "draining", "ownership_released", "successor_acquired",
   "revalidated", "activated", "failed"}
NoHandoff == [phase |-> "none", owner |-> None, decided |-> {}]
InFlight(h) == handoff[h].phase \notin {"none", "activated", "failed"}
Recorded == {h \in Handoffs : handoff[h].phase # "none"}
LastUpdated(h, among) == \A other \in among \ {h} : <<h, other>> \in recent

(* Variant of Advance that names no recovery owner. *)
AdvanceUnowned(h, record, to) == [record EXCEPT !.phase = to]
(* The next phase, and who may recover in it (ControllerHandoff.Advance,    *)
(* Fail: a failed transition is the predecessor's to recover).  What a      *)
(* settled transition was decided on is not read again.                     *)
Advance(h, record, to) ==
  [record EXCEPT !.phase = to,
     !.decided = IF to \in {"failed", "activated"} THEN {} ELSE @,
     !.owner = IF to \in {"revalidated", "activated"} THEN Successor(h) ELSE Predecessor(h)]

(* Each write is conditional on the phase its writer last saw               *)
(* (PutControllerHandoff, ActivateControllerHandoff).                       *)
PutControllerHandoff(h, record, expected) ==
  /\ handoff[h].phase = expected
  /\ handoff' = [handoff EXCEPT ![h] = record]
  /\ recent' = {o \in recent : h \notin {o[1], o[2]}} \cup ({h} \X (Recorded \ {h}))

(* The controllers a run has been continued by: its creator and, following  *)
(* the admissions in its journal, the successors of activated transitions   *)
(* that start where the run stands (ControllerSuccessionContinues).         *)
Continuers(r) ==
  LET journal == run[r].admitted
      stands[i \in 0 .. Len(journal)] ==
        IF i = 0 THEN run[r].creator
        ELSE LET h == journal[i]
             IN  IF handoff[h].phase = "activated" /\ Predecessor(h) = stands[i - 1]
                 THEN Successor(h) ELSE stands[i - 1]
  IN  {stands[i] : i \in DOMAIN stands}
Continues(r, g) == g \in Continuers(r)

(* The journal of a run that ended no longer matters to a transition, and   *)
(* whether it ended is what its row says: a run whose stop is journalled    *)
(* and not in its row yet is a live one.                                    *)
Ended == [state |-> "done", creator |-> 1, work |-> 0, told |-> 0, admitted |-> <<>>]
Live == {r \in Runs : run[r].state \in {"live", "cancelled"}}

(* Where a journal stands, as far as events were counted: the controllers'  *)
(* own and those that operators had appended.                               *)
Worked(r) == run[r].work + Len(run[r].admitted)
EventCount(r) == [work |-> Worked(r), told |-> run[r].told]
Counts == [work : Nat, told : Nat]

(* What a successor would inherit, read from the store                      *)
(* (PreflightControllerHandoff).                                            *)
Compatible(h) == \A r \in Live : Continues(r, Predecessor(h))
Decided == {<<r, EventCount(r)>> : r \in Live}

(* The state decided on still stands (RevalidateControllerHandoff), and     *)
(* nothing governs that the transition does not succeed from.               *)
RevalidateControllerHandoff(h) ==
  \A r \in Live : <<r, EventCount(r)>> \in handoff[h].decided
(* Variant of RevalidateAcquiredHandoff that does not read the runs again. *)
RevalidateAcquiredHandoffUnread(h) ==
  /\ handoff[h].phase = "successor_acquired"
  /\ authority # None => authority.generation = Predecessor(h)
RevalidateAcquiredHandoff(h) ==
  /\ handoff[h].phase = "successor_acquired"
  /\ authority # None => authority.generation = Predecessor(h)
  /\ RevalidateControllerHandoff(h)

-----------------------------------------------------------------------------
(* Processes.  `transition' is the one a successor was started for or a     *)
(* predecessor is performing; `update' what the updater has settled on.     *)

Dead ==
  [pc |-> "dead", generation |-> 1, gate |-> "pending", admitting |-> FALSE,
   driving |-> {}, child |-> None, transition |-> None, seen |-> None,
   update |-> [subject |-> 0, ready |-> FALSE],
   decided |-> {}]
Serving(g) == [Dead EXCEPT !.pc = "serve", !.generation = g, !.gate = "open"]

Pcs ==
  {"dead", "resolve", "settle", "serve",
   "hold", "quiet", "evaluate", "begin", "drain", "release", "released", "proceed", "leave",
   "inert", "told", "takeOver", "revalidate", "admit", "prove", "project", "enable", "refused"}

Init ==
  /\ \E p \in Processes :
       /\ proc = [q \in Processes |-> IF q = p THEN Serving(1) ELSE Dead]
       /\ role = p
  /\ handoff = [h \in Handoffs |-> NoHandoff]
  /\ recent = {}
  /\ authority = None
  /\ pointer = 1
  /\ run = [r \in Runs |-> [Ended EXCEPT !.state = "none"]]
  /\ trusted = 1

At(p, pc) == proc[p].pc = pc
Update(p, changed) == proc' = [proc EXCEPT ![p] = changed]
Goto(p, pc) == Update(p, [proc[p] EXCEPT !.pc = pc])

(* A process that ends gives up the role with its descriptors. *)
Exit(p) == Update(p, Dead) /\ role' = IF role = p THEN None ELSE role

Durable == <<handoff, recent, authority, pointer, run, trusted>>

(* A write of the transition's next phase and what follows it, or a process *)
(* that ends because the record is not where it left it.                    *)
Persist(p, from, to, next) ==
  LET h == proc[p].transition
  IN  \/ /\ PutControllerHandoff(h, Advance(h, handoff[h], to), from)
         /\ Goto(p, next)
         /\ UNCHANGED <<role, authority, pointer, run, trusted>>
      \/ /\ handoff[h].phase # from
         /\ Exit(p)
         /\ UNCHANGED Durable

-----------------------------------------------------------------------------
(* Starting to serve. *)

(* Variant of Start that does not find the role taken. *)
StartUnlocked(p) ==
  /\ At(p, "dead")
  /\ role' = p
  /\ Update(p, [Dead EXCEPT !.pc = "resolve", !.generation = pointer])
  /\ UNCHANGED Durable
(* The operator or a service manager runs the stable entrypoint; a process  *)
(* that does not get the role ends (AcquireControllerRole).                 *)
Start(p) ==
  /\ At(p, "dead") /\ role = None
  /\ role' = p
  /\ Update(p, [Dead EXCEPT !.pc = "resolve", !.generation = pointer])
  /\ UNCHANGED Durable

(* The transition last updated that did not fail, when the record gives it  *)
(* to this generation to recover as its predecessor                         *)
(* (ResolveControllerHandoff); every other answer is only printed.          *)
ResumePredecessor(g) ==
  LET unsettled == {h \in Recorded : handoff[h].phase # "failed"}
  IN  {h \in unsettled :
         /\ LastUpdated(h, unsettled)
         /\ handoff[h].phase # "activated"
         /\ handoff[h].owner = g
         /\ Predecessor(h) = g}

(* A successor was started shut; every other process serves at once. *)
Admitted(p) ==
  IF proc[p].transition # None THEN [proc[p] EXCEPT !.pc = "takeOver"]
  ELSE Serving(proc[p].generation)

(* ResolveHandoffAtStartup: read, then settle what was interrupted. *)
Resolve(p) ==
  LET interrupted == ResumePredecessor(proc[p].generation)
  IN  /\ At(p, "resolve")
      /\ \/ interrupted = {} /\ Update(p, Admitted(p))
         \/ \E h \in interrupted :
              Update(p, [proc[p] EXCEPT !.pc = "settle",
                           !.seen = [handoff |-> h, phase |-> handoff[h].phase]])
      /\ UNCHANGED <<role, Durable>>

(* Variant of SettleInterrupted for a process that only reports it. *)
SettleInterruptedNot(p) ==
  /\ At(p, "settle")
  /\ Update(p, [Admitted(p) EXCEPT !.seen = None])
  /\ UNCHANGED <<role, Durable>>
SettleInterrupted(p) ==
  LET h == proc[p].seen.handoff  phase == proc[p].seen.phase
  IN  /\ At(p, "settle")
      /\ \/ PutControllerHandoff(h, Advance(h, handoff[h], "failed"), phase)
         \/ handoff[h].phase # phase /\ UNCHANGED <<handoff, recent>>
      /\ Update(p, [Admitted(p) EXCEPT !.seen = None])
      /\ UNCHANGED <<role, authority, pointer, run, trusted>>

-----------------------------------------------------------------------------
(* Work.  The decision to admit and the run it creates are under the gate's *)
(* lock, which holding and closing take exclusively.                        *)

BeginSubmit(p) ==
  /\ proc[p].gate = "open" /\ ~proc[p].admitting
  /\ \E r \in Runs : run[r].state = "none"
  /\ Update(p, [proc[p] EXCEPT !.admitting = TRUE])
  /\ UNCHANGED <<role, Durable>>
CommitSubmit(p, r) ==
  /\ proc[p].admitting
  /\ run[r].state = "none"
  /\ run' = [run EXCEPT ![r].state = "live", ![r].creator = proc[p].generation]
  /\ Update(p, [proc[p] EXCEPT !.admitting = FALSE])
  /\ UNCHANGED <<role, handoff, recent, authority, pointer, trusted>>

(* A turn is started under the gate and outlives it.  A run that another    *)
(* controller continues is parked.                                          *)
StartTurn(p, r) ==
  /\ At(p, "serve") /\ proc[p].gate = "open"
  /\ r \in Live \ proc[p].driving
  /\ Continues(r, proc[p].generation)
  /\ Update(p, [proc[p] EXCEPT !.driving = @ \cup {r}])
  /\ UNCHANGED <<role, Durable>>
EndTurn(p, r) ==
  /\ r \in proc[p].driving
  /\ \/ r \in Live /\ run[r].work < MaxWork /\ run' = [run EXCEPT ![r].work = @ + 1]
     \/ run' = [run EXCEPT ![r] = Ended]
  /\ Update(p, [proc[p] EXCEPT !.driving = @ \ {r}])
  /\ UNCHANGED <<role, handoff, recent, authority, pointer, trusted>>

(* Operators are served by whichever process has the endpoint, or write     *)
(* themselves when none answers; none of it takes the gate.  A pause, its   *)
(* end or an answer to a request for authority is one event in the journal  *)
(* of a run that is not over (changePause, RecordOperatorAuthority).        *)
OperatorAppends(r) ==
  /\ run[r].state = "live" /\ run[r].told < MaxTold
  /\ run' = [run EXCEPT ![r].told = @ + 1]
  /\ UNCHANGED <<proc, role, handoff, recent, authority, pointer, trusted>>

(* A stop is journalled and then written to the row. *)
CancelRun(r) ==
  /\ run[r].state = "live" /\ run[r].told < MaxTold
  /\ run' = [run EXCEPT ![r].state = "cancelled", ![r].told = @ + 1]
  /\ UNCHANGED <<proc, role, handoff, recent, authority, pointer, trusted>>
PutCancelledRun(r) ==
  /\ run[r].state = "cancelled"
  /\ run' = [run EXCEPT ![r] = Ended]
  /\ UNCHANGED <<proc, role, handoff, recent, authority, pointer, trusted>>

-----------------------------------------------------------------------------
(* The predecessor (ControllerUpdater, LaunchSuccession, BeginHandoff). *)

TrustedMainAdvances ==
  /\ trusted < MaxGeneration
  /\ trusted' = trusted + 1
  /\ UNCHANGED <<proc, role, handoff, recent, authority, pointer, run>>

(* The successor of trusted main is built and the transition preflighted,   *)
(* once for a revision: ready or blocked, the answer stands.                *)
SettleUpdate(p) ==
  LET h == <<proc[p].generation, trusted>>
  IN  /\ At(p, "serve")
      /\ trusted > proc[p].generation
      /\ proc[p].update.subject # trusted
      /\ Update(p, [proc[p] EXCEPT
                      !.update = [subject |-> trusted, ready |-> Compatible(h)]])
      /\ UNCHANGED <<role, Durable>>

(* Spawn the successor, which says what it is and then waits. *)
Launch(p, q) ==
  /\ At(p, "serve") /\ At(q, "dead") /\ q # p
  /\ proc[p].update = [subject |-> trusted, ready |-> TRUE]
  /\ LET h == <<proc[p].generation, trusted>>
     IN  proc' = [proc EXCEPT
                    ![p] = [@ EXCEPT !.pc = "hold", !.child = q, !.transition = h],
                    ![q] = [Dead EXCEPT !.pc = "inert", !.generation = trusted,
                                        !.transition = h]]
  /\ UNCHANGED <<role, Durable>>

(* Before the point of no return a refusal costs the update only: the       *)
(* successor is stopped and intake resumes.                                 *)
Abandon(p) ==
  /\ proc' = [proc EXCEPT
                ![p] = [@ EXCEPT !.pc = "serve", !.gate = "open", !.child = None,
                                 !.transition = None],
                ![proc[p].child] = Dead]
  /\ UNCHANGED <<role, Durable>>

(* Variant of HoldAdmission that does not wait for an admission. *)
HoldAdmissionAtOnce(p) ==
  /\ At(p, "hold")
  /\ Update(p, [proc[p] EXCEPT !.gate = "held", !.pc = "quiet"])
  /\ UNCHANGED <<role, Durable>>
(* QuiesceWorkForTransition: suspend intake, wait for the turns or give up. *)
HoldAdmission(p) ==
  /\ At(p, "hold") /\ ~proc[p].admitting
  /\ Update(p, [proc[p] EXCEPT !.gate = "held", !.pc = "quiet"])
  /\ UNCHANGED <<role, Durable>>
Quiesced(p) ==
  /\ At(p, "quiet") /\ proc[p].driving = {}
  /\ Goto(p, "evaluate")
  /\ UNCHANGED <<role, Durable>>
QuiesceTimeout(p) == At(p, "quiet") /\ proc[p].driving # {} /\ Abandon(p)

(* The successor decides the transition from the store as it stands, and    *)
(* trusted main is observed again.                                          *)
Evaluate(p) ==
  LET h == proc[p].transition
  IN  /\ At(p, "evaluate")
      /\ IF Compatible(h) /\ trusted = Successor(h) /\ At(proc[p].child, "inert")
         THEN /\ Update(p, [proc[p] EXCEPT !.pc = "begin", !.decided = Decided])
              /\ UNCHANGED <<role, Durable>>
         ELSE Abandon(p)

(* A transition is recorded once, or again when it failed.  From here a     *)
(* refusal ends the process.                                                *)
BeginHandoff(p) ==
  LET h == proc[p].transition
      prepared == Advance(h, [NoHandoff EXCEPT !.decided = proc[p].decided], "prepared")
  IN  /\ At(p, "begin")
      /\ \/ /\ \E settled \in {"none", "failed"} : PutControllerHandoff(h, prepared, settled)
            /\ Update(p, [proc[p] EXCEPT !.pc = "drain", !.decided = {}])
            /\ UNCHANGED <<role, authority, pointer, run, trusted>>
         \/ /\ InFlight(h) \/ handoff[h].phase = "activated"
            /\ Exit(p)
            /\ UNCHANGED Durable

Drain(p) ==
  LET h == proc[p].transition
  IN  /\ At(p, "drain")
      /\ PutControllerHandoff(h, Advance(h, handoff[h], "draining"), "prepared")
      /\ Update(p, [proc[p] EXCEPT !.gate = "closed", !.pc = "release"])
      /\ UNCHANGED <<role, authority, pointer, run, trusted>>
ReleaseOwnership(p) ==
  /\ At(p, "release")
  /\ role' = None
  /\ Goto(p, "released")
  /\ UNCHANGED Durable
RecordReleased(p) ==
  At(p, "released") /\ Persist(p, "draining", "ownership_released", "proceed")

(* The successor is told, and the predecessor ends when it hears that the   *)
(* successor serves, that it failed, or nothing at all.                     *)
Proceed(p) ==
  /\ At(p, "proceed")
  /\ proc' = [proc EXCEPT
                ![p] = [@ EXCEPT !.pc = "leave", !.child = None],
                ![proc[p].child] = IF @.pc = "inert" THEN [@ EXCEPT !.pc = "told"] ELSE @]
  /\ UNCHANGED <<role, Durable>>
Leave(p) == At(p, "leave") /\ Exit(p) /\ UNCHANGED Durable

-----------------------------------------------------------------------------
(* The successor (serve --successor-of, CompleteHandoff). *)

(* The pipe ended before the role was released. *)
Orphaned(q) ==
  /\ At(q, "inert") /\ \A p \in Processes : proc[p].child # q
  /\ Exit(q) /\ UNCHANGED Durable

AcquireControllerRole(q) ==
  /\ At(q, "told")
  /\ IF role = None THEN role' = q /\ Goto(q, "resolve") ELSE Exit(q)
  /\ UNCHANGED Durable

TakeOver(q) == At(q, "takeOver") /\ Persist(q, "ownership_released", "successor_acquired", "revalidate")

(* What moved is handed back: the predecessor recovers, the role is given up. *)
Revalidate(q) ==
  LET h == proc[q].transition
  IN  /\ At(q, "revalidate")
      /\ \/ /\ RevalidateAcquiredHandoff(h)
            /\ Goto(q, "admit")
            /\ UNCHANGED <<handoff, recent>>
         \/ /\ ~RevalidateAcquiredHandoff(h)
            /\ PutControllerHandoff(h, Advance(h, handoff[h], "failed"), "successor_acquired")
            /\ Goto(q, "refused")
      /\ UNCHANGED <<role, authority, pointer, run, trusted>>
Refused(q) == At(q, "refused") /\ Exit(q) /\ UNCHANGED Durable

(* One journal at a time; an earlier attempt's evidence is not repeated.    *)
(* An admission that fails hands the transition back.                       *)
AdmitSuccession(q) ==
  LET h == proc[q].transition
      due == {r \in Live \cap {d[1] : d \in handoff[h].decided} :
                \A i \in DOMAIN run[r].admitted : run[r].admitted[i] # h}
  IN  /\ At(q, "admit")
      /\ \/ /\ due # {}
            /\ \E r \in due : run' = [run EXCEPT ![r].admitted = Append(@, h)]
            /\ UNCHANGED <<proc, role, handoff, recent, authority, pointer, trusted>>
         \/ due = {} /\ Persist(q, "successor_acquired", "revalidated", "prove")
         \/ handoff[h].decided # {} /\ Persist(q, "successor_acquired", "failed", "refused")

(* The record and the authority in one transaction. *)
ActivateControllerHandoff(q) ==
  LET h == proc[q].transition
  IN  /\ At(q, "prove")
      /\ PutControllerHandoff(h, Advance(h, handoff[h], "activated"), "revalidated")
      /\ authority' = [kind |-> "activation", ref |-> h, generation |-> Successor(h)]
      /\ Goto(q, "project")
      /\ UNCHANGED <<role, pointer, run, trusted>>

(* The entrypoint follows, or needs repair; service does not wait for it. *)
ActivateControllerGeneration(q) ==
  /\ At(q, "project")
  /\ pointer' \in {pointer, proc[q].generation}
  /\ Goto(q, "enable")
  /\ UNCHANGED <<role, handoff, recent, authority, run, trusted>>
EnableWorkAdmission(q) ==
  /\ At(q, "enable")
  /\ Update(q, Serving(proc[q].generation))
  /\ UNCHANGED <<role, Durable>>

-----------------------------------------------------------------------------
(* Maintenance: a controller that an activation made the governing one      *)
(* repairs the entrypoint (ControllerReconciler, RecoverActivated).         *)
RecoverActivated(p) ==
  /\ At(p, "serve")
  /\ authority # None
  /\ authority.kind = "activation" /\ authority.generation = proc[p].generation
  /\ pointer # proc[p].generation
  /\ pointer' = proc[p].generation
  /\ UNCHANGED <<proc, role, handoff, recent, authority, run, trusted>>

(* Variant of ReadoptController that sanctions what the entrypoint reaches. *)
ReadoptControllerReached ==
  /\ role = None
  /\ \A h \in Handoffs : ~InFlight(h)
  /\ \A r \in Live : Continues(r, pointer)
  /\ authority' = [kind |-> "readoption", ref |-> None, generation |-> pointer]
  /\ UNCHANGED <<proc, role, handoff, recent, pointer, run, trusted>>
(* The operator sanctions the generation trusted main names, cold, and      *)
(* moves the entrypoint to it or fails to.                                  *)
ReadoptController ==
  /\ role = None
  /\ \A h \in Handoffs : ~InFlight(h)
  /\ \A r \in Live : Continues(r, trusted)
  /\ authority' = [kind |-> "readoption", ref |-> None, generation |-> trusted]
  /\ authority' # authority
  /\ pointer' \in {pointer, trusted}
  /\ UNCHANGED <<proc, role, handoff, recent, run, trusted>>

(* Asking again for the generation that was sanctioned decides nothing      *)
(* anew and only repairs the entrypoint.                                    *)
ActivateReadoptedGeneration ==
  /\ role = None
  /\ authority # None
  /\ authority.kind = "readoption"
  /\ pointer' = authority.generation
  /\ UNCHANGED <<proc, role, handoff, recent, authority, run, trusted>>

Crash(p) == ~At(p, "dead") /\ Exit(p) /\ UNCHANGED Durable

-----------------------------------------------------------------------------
Step(p) ==
  \/ Resolve(p) \/ SettleInterrupted(p)
  \/ (\E r \in Runs : CommitSubmit(p, r) \/ EndTurn(p, r))
  \/ SettleUpdate(p) \/ (\E q \in Processes : Launch(p, q))
  \/ HoldAdmission(p) \/ Quiesced(p) \/ Evaluate(p)
  \/ BeginHandoff(p) \/ Drain(p) \/ ReleaseOwnership(p) \/ RecordReleased(p)
  \/ Proceed(p) \/ Leave(p)
  \/ Orphaned(p) \/ AcquireControllerRole(p) \/ TakeOver(p)
  \/ Revalidate(p) \/ Refused(p) \/ AdmitSuccession(p)
  \/ ActivateControllerHandoff(p) \/ ActivateControllerGeneration(p) \/ EnableWorkAdmission(p)
  \/ RecoverActivated(p)

OperatorActs(r) == OperatorAppends(r) \/ CancelRun(r) \/ PutCancelledRun(r)

Environment ==
  \/ \E p \in Processes : BeginSubmit(p) \/ \E r \in Runs : StartTurn(p, r)
  \/ \E r \in Runs : OperatorActs(r)
  \/ TrustedMainAdvances \/ ReadoptController \/ ActivateReadoptedGeneration

Restart == \E p \in Processes : Start(p)

Undisturbed == (\E p \in Processes : Step(p)) \/ Restart \/ Environment
Next == Undisturbed \/ \E p \in Processes : QuiesceTimeout(p) \/ Crash(p)

(* A live process takes its next step, and a service manager starts a       *)
(* controller when none holds the role.                                     *)
Fairness == (\A p \in Processes : WF_vars(Step(p))) /\ WF_vars(Restart)
Spec == Init /\ [][Next]_vars /\ Fairness

-----------------------------------------------------------------------------
Authorities ==
  [kind : {"readoption"}, ref : {None}, generation : Generations]
    \cup {[kind |-> "activation", ref |-> h, generation |-> Successor(h)] : h \in Handoffs}

(* Records, processes and runs are well formed, and a transition always     *)
(* names who recovers it from the moment it is recorded.                    *)
TypeOK ==
  /\ \A p \in Processes :
       /\ proc[p].pc \in Pcs /\ proc[p].generation \in Generations
       /\ proc[p].gate \in {"pending", "open", "held", "closed"}
       /\ proc[p].driving \subseteq Runs /\ proc[p].child \in Processes \cup {None}
       /\ proc[p].transition \in Handoffs \cup {None}
  /\ role \in Processes \cup {None}
  /\ handoff \in [Handoffs -> [phase : Phases, owner : Generations \cup {None},
                               decided : SUBSET (Runs \X Counts)]]
  /\ \A h \in Handoffs : handoff[h].owner = None <=> handoff[h].phase = "none"
  /\ recent \subseteq Handoffs \X Handoffs
  /\ authority \in Authorities \cup {None}
  /\ pointer \in Generations /\ trusted \in Generations
  /\ run \in [Runs -> [state : {"none", "live", "cancelled", "done"}, creator : Generations,
                       work : 0 .. MaxWork, told : 0 .. MaxTold, admitted : Seq(Handoffs)]]

(* Whatever dies, races or restarts, at most one process admits work or is  *)
(* in the middle of admitting it, and it holds the controller role.         *)
OneAdmits ==
  \A p \in Processes : proc[p].gate = "open" \/ proc[p].admitting => role = p

(* An activation strands no run: every run that is live when a successor    *)
(* becomes the governing controller is one it continues.                    *)
GovernsLiveRuns == \A r \in Live : Continues(r, authority.generation)
ActivationStrandsNoRun ==
  [][authority' # authority /\ authority'.kind = "activation" => GovernsLiveRuns']_vars

(* Authority only ever moves on to a descendant: a successor that was slow  *)
(* to take over never replaces a generation that superseded it.             *)
AuthorityNeverRegresses ==
  [][authority # None /\ authority' # authority =>
       authority'.generation >= authority.generation]_vars

(* While the successor decides, controllers are quiet: every run that is    *)
(* live when the predecessor commits is one that was decided on, and no     *)
(* intake, turn or admission has added to its journal since.  Only what     *)
(* operators had appended may differ.                                       *)
WorkStands(decided) ==
  \A r \in Live : \E d \in decided : d[1] = r /\ d[2].work = Worked(r)
DecidedStateStands ==
  \A p \in Processes :
    /\ At(p, "begin") => WorkStands(proc[p].decided)
    /\ proc[p].pc \in {"drain", "release"} => WorkStands(handoff[proc[p].transition].decided)

(* "NOTHING MAY APPEND WHILE THE SUCCESSOR DECIDES ... so the journal the   *)
(* successor is about to read is the journal it will inherit"               *)
(* (controller_launch.go:268): from the decision to the release of the role *)
(* every journal stands as it was decided on.                               *)
NothingAppends ==
  \A p \in Processes :
    /\ At(p, "begin") => \A r \in Live : <<r, EventCount(r)>> \in proc[p].decided
    /\ proc[p].pc \in {"drain", "release"} => RevalidateControllerHandoff(proc[p].transition)

(* Once processes stop dying and turns end in the time a transition gives   *)
(* them, the transition last recorded does not stay for its predecessor to  *)
(* recover while the predecessor governs and the entrypoint starts it: it   *)
(* is settled at a startup, or its successor takes it past the point of     *)
(* return.                                                                  *)
InterruptedSettles ==
  <>[][Undisturbed]_vars =>
    []<>~(\E h \in Handoffs :
            /\ InFlight(h) /\ handoff[h].owner = Predecessor(h) /\ LastUpdated(h, Recorded)
            /\ authority # None => authority.generation = Predecessor(h)
            /\ pointer = Predecessor(h))
=============================================================================
