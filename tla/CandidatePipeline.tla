-------------------------- MODULE CandidatePipeline --------------------------
(***************************************************************************)
(* One run from its source to a merged pull request: the planner and the   *)
(* pass loop of the reconciler (runtime/reconciler.go), the handlers of    *)
(* its operations (runtime/operations.go), the journal's projection        *)
(* (runtime/projection.go) and what lies outside the process - the         *)
(* candidate workspace, the forge and the human who answers.               *)
(*                                                                         *)
(* One process drives the run (module Scheduler); it can die between any   *)
(* two of its effects.  Revisions number the commits the runtime makes in  *)
(* the order it makes them.                                                *)
(***************************************************************************)
EXTENDS Integers, FiniteSets, Sequences

CONSTANTS
  MaxRevision,  \* bound: commits the runtime makes
  MaxBase,      \* bound: heads the default branch takes
  MaxAttempts,  \* attempts of an invocation and of an assurance
  MaxFaults,    \* bound: crashes and failing handlers
  MaxOutside,   \* bound: steps of the forge and of everybody who uses it
  Gated,        \* revisions whose contract requires a human approval
  Foreign,      \* a commit somebody else made
  None

ASSUME PipelineAssumption ==
  /\ MaxRevision \in Nat \ {0} /\ MaxBase \in Nat \ {0}
  /\ MaxAttempts \in Nat \ {0} /\ MaxFaults \in Nat /\ MaxOutside \in Nat
  /\ Gated \subseteq 1 .. MaxRevision
  /\ None # Foreign /\ {None, Foreign} \cap Nat = {}

Revisions == 1 .. MaxRevision
Bases == 1 .. MaxBase

VARIABLES
  journal,    \* the projection of the run's journal
  seen,       \* the observations that succeeded at the journal's epoch
  ops,        \* the operations planned so far, by key
  commits,    \* the commits the runtime has made
  workspace,  \* the candidate workspace: its head and uncommitted work
  forge,      \* the default branch, the run's branch and its pull requests,
              \* the ones the runtime opened and the ones somebody else did
  doing,      \* what the process is in the middle of
  faults

vars == <<journal, seen, ops, commits, workspace, forge, doing, faults>>

-----------------------------------------------------------------------------
(* The journal.                                                             *)

Unpublished == [head |-> None, merged |-> FALSE]
Empty ==
  [pinned |-> None, contract |-> FALSE, candidate |-> None, complete |-> FALSE,
   base |-> None, assurance |-> [commit |-> None, verdict |-> "none"],
   external |-> None, decision |-> [status |-> "none", answer |-> None],
   approvals |-> {}, pr |-> Unpublished, ci |-> [head |-> None, failing |-> FALSE],
   waits |-> "none", stands |-> FALSE, ended |-> FALSE]

Event(type, rev, what) == [type |-> type, rev |-> rev, what |-> what]

HeadOf(j) == IF j.candidate # None THEN j.candidate ELSE j.pr.head

(* A finding for another head never displaces one for the current head. *)
supersedes(existing, head, current) == head = current \/ existing # current

baseRevision(j) == IF j.base # None THEN j.base ELSE j.pinned

(* What one event does to the projection; observations of the forge alone   *)
(* leave a goal that was recorded standing (producerStageFinished).         *)
apply(j, e) ==
  LET fold ==
        CASE e.type = "contract_compiled" -> [j EXCEPT !.contract = TRUE]
          [] e.type = "candidate_committed" ->
               [j EXCEPT !.candidate = e.rev, !.complete = TRUE]
          [] e.type = "candidate_checkpointed" ->
               [j EXCEPT !.candidate = e.rev, !.complete = FALSE]
          [] e.type = "execution_completed" -> [j EXCEPT !.complete = TRUE]
          [] e.type = "base_integrated" ->
               [j EXCEPT !.candidate = e.rev, !.complete = TRUE, !.base = commits[e.rev].base]
          [] e.type = "external_changed" -> [j EXCEPT !.external = e.rev]
          [] e.type = "authority_evaluated" ->
               [j EXCEPT !.decision = [status |-> e.what, answer |-> None]]
          [] e.type = "assurance_observed" ->
               IF j.assurance.commit = None \/ supersedes(j.assurance.commit, e.rev, HeadOf(j))
               THEN [j EXCEPT !.assurance = [commit |-> e.rev, verdict |-> e.what]] ELSE j
          [] e.type = "pr_observed" ->
               IF j.pr.head = None \/ supersedes(j.pr.head, e.rev, j.candidate)
               THEN [j EXCEPT !.pr = [head |-> e.rev, merged |-> e.what = "merged"]] ELSE j
          [] e.type = "ci_observed" ->
               IF j.ci.head = None \/ supersedes(j.ci.head, e.rev, HeadOf(j))
               THEN [j EXCEPT !.ci = [head |-> e.rev, failing |-> e.what = "failing"]] ELSE j
          [] OTHER -> j
  IN  IF e.type \in {"pr_observed", "ci_observed"} THEN fold ELSE [fold EXCEPT !.stands = FALSE]

published == journal.pr.head # None

(* The class of the failure at the current head, if any. *)
currentHeadFailure ==
  IF journal.assurance.commit = HeadOf(journal) /\ journal.assurance.verdict \in {"refused", "unproved"}
  THEN journal.assurance.verdict
  ELSE IF journal.ci.head = HeadOf(journal) /\ journal.ci.failing THEN "checks" ELSE "none"
Remediable == currentHeadFailure \in {"refused", "checks"}

(* A decision that waits for a human, unless an answer for the candidate    *)
(* was recorded after it.                                                   *)
unansweredPublicationDecision ==
  journal.decision.status = "awaiting" /\ journal.decision.answer # journal.candidate

conditions ==
  IF journal.pr.merged THEN "completed"
  ELSE IF journal.external # None THEN "candidate_external_changed"
  ELSE IF unansweredPublicationDecision THEN "awaiting_authority"
  ELSE "active"
Waits == conditions \notin {"completed", "active"}

-----------------------------------------------------------------------------
(* The planner: each kind of operation and the state it is bound to.        *)

Key(kind, rev, mark) == [kind |-> kind, rev |-> rev, mark |-> mark]
Unwanted == Key("none", None, "")

Fresh ==
  [state |-> "planned", attempt |-> 0, mutated |-> FALSE, checkpoint |-> FALSE,
   made |-> None, refused |-> FALSE, at |-> 0]
Op(k) == IF k \in DOMAIN ops THEN ops[k] ELSE [Fresh EXCEPT !.at = Cardinality(DOMAIN ops) + 1]

Observations == {"source", "forge"}
satisfied(k) ==
  IF k.kind \in Observations THEN k.kind \in seen
  ELSE k \in DOMAIN ops /\ ops[k].state = "succeeded"
attemptsFor(kind) == IF kind \in {"invoke", "assure"} THEN MaxAttempts ELSE 3

bindSourceObserve == Key("source", None, "")
bindGitHubObserve == IF published THEN Key("forge", None, "") ELSE Unwanted
bindContractCompile == IF journal.pinned # None THEN Key("contract", None, "") ELSE Unwanted
bindCandidateCreate == IF journal.contract THEN Key("create", None, "") ELSE Unwanted

bindExecutionInvoke ==
  IF ~journal.contract \/ ~satisfied(bindCandidateCreate) THEN Unwanted
  ELSE IF journal.candidate = None THEN Key("invoke", None, "initial")
  ELSE IF ~journal.complete THEN Key("invoke", journal.candidate, "continuation")
  ELSE IF Remediable THEN Key("invoke", journal.candidate, currentHeadFailure)
  ELSE Unwanted

(* The oldest invocation that changed the workspace and is not committed. *)
CommitOf(k) == [k EXCEPT !.kind = "commit"]
Uncommitted ==
  {k \in DOMAIN ops : /\ k.kind = "invoke" /\ ops[k].state = "succeeded" /\ ops[k].mutated
                      /\ ~satisfied(CommitOf(k))}
bindCandidateCommit ==
  IF Uncommitted = {} THEN Unwanted
  ELSE CommitOf(CHOOSE k \in Uncommitted : \A other \in Uncommitted : ops[k].at <= ops[other].at)

bindAssuranceGo ==
  IF journal.candidate # None /\ journal.contract /\ journal.complete
  THEN Key("assure", journal.candidate, "") ELSE Unwanted

(* The base is fetched again once the head is pushed, and once published. *)
bindBaseIntegrate ==
  LET head == journal.candidate
      pushed == satisfied(Key("push", head, ""))
  IN  IF head # None /\ journal.assurance.commit = head /\ journal.assurance.verdict = "passed"
      THEN Key("integrate", head,
               IF published THEN IF pushed THEN "published" ELSE "unpushed"
               ELSE IF pushed THEN "pushed" ELSE "local")
      ELSE Unwanted

(* Variant of bindAuthorityEvaluate that is bound to the run instead of the *)
(* candidate.                                                               *)
bindAuthorityEvaluateOnce ==
  IF satisfied(bindBaseIntegrate) THEN Key("authority", None, "asked") ELSE Unwanted
bindAuthorityEvaluate ==
  IF satisfied(bindBaseIntegrate)
  THEN Key("authority", journal.candidate,
           IF journal.candidate \in journal.approvals THEN "answered" ELSE "asked")
  ELSE Unwanted
authorizedForPublication ==
  journal.decision.status = "authorized" /\ satisfied(bindAuthorityEvaluate)

bindCandidatePush ==
  IF authorizedForPublication THEN Key("push", journal.candidate, "") ELSE Unwanted
Pushed == satisfied(bindCandidatePush)
bindPullRequestCreate == IF ~published /\ Pushed THEN Key("create_pr", None, "") ELSE Unwanted
bindPullRequestUpdate ==
  IF published /\ Pushed /\ journal.pr.head # journal.candidate
  THEN Key("update_pr", journal.candidate, "") ELSE Unwanted

(* The first operation, in the order of operationSpecs, that is wanted and  *)
(* has not succeeded.                                                       *)
Sooner(k, later) == IF k # Unwanted /\ ~satisfied(k) THEN k ELSE later
plan ==
  Sooner(bindSourceObserve, Sooner(bindGitHubObserve, Sooner(bindContractCompile,
  Sooner(bindCandidateCreate, Sooner(bindExecutionInvoke, Sooner(bindCandidateCommit,
  Sooner(bindAssuranceGo, Sooner(bindBaseIntegrate, Sooner(bindAuthorityEvaluate,
  Sooner(bindCandidatePush, Sooner(bindPullRequestCreate, Sooner(bindPullRequestUpdate,
  Unwanted))))))))))))

-----------------------------------------------------------------------------
(* The pass loop.  `failure' and `repeats' are the no-progress tracker of   *)
(* the reconciliation under way, `current' whether the journal stands       *)
(* where the operation's key was taken, `answered' whether the state the    *)
(* operation was loaded with holds an answer for the candidate.             *)

NoFailure == [head |-> None, class |-> "none"]
Idle ==
  [pc |-> "idle", key |-> Unwanted, events |-> <<>>, after |-> Fresh, remote |-> None,
   current |-> FALSE, answered |-> FALSE, settles |-> "none",
   failure |-> NoFailure, repeats |-> 0]

Init ==
  /\ journal = Empty /\ seen = {} /\ ops = <<>> /\ commits = <<>>
  /\ workspace = [head |-> None, work |-> "none"]
  /\ forge = [base |-> 1, branch |-> None, own |-> 0, theirs |-> 0, merged |-> FALSE, failing |-> {}]
  /\ doing = Idle /\ faults = 0

(* A waiting disposition is journalled when it changed; a goal also when    *)
(* work followed it.                                                        *)
recordDisposition(reason) ==
  IF journal.waits # reason \/ (reason = "goal_state_reached" /\ (~journal.stands \/ Remediable))
  THEN /\ journal' = [journal EXCEPT !.waits = reason, !.stands = reason = "goal_state_reached"]
       /\ seen' = {}
  ELSE UNCHANGED <<journal, seen>>

settle(reason) ==
  /\ recordDisposition(reason)
  /\ doing' = Idle
  /\ UNCHANGED <<ops, commits, workspace, forge, faults>>
End ==
  /\ journal' = [journal EXCEPT !.ended = TRUE] /\ seen' = {}
  /\ doing' = Idle
  /\ UNCHANGED <<ops, commits, workspace, forge, faults>>

(* The tracker counts the passes that would work on one failing head. *)
Fingerprint == [head |-> HeadOf(journal), class |-> currentHeadFailure]
Counts(desired) == currentHeadFailure # "none" /\ desired.kind \notin Observations
Repeats == IF doing.failure = Fingerprint THEN doing.repeats + 1 ELSE 1
NoProgress(desired) == Counts(desired) /\ Repeats > 2

Works(desired) == desired # Unwanted /\ desired.kind \notin Observations
(* Variant of Exhausted that is off by one. *)
ExhaustedAfterOneMore(desired) == Op(desired).attempt > attemptsFor(desired.kind)
Exhausted(desired) == Op(desired).attempt >= attemptsFor(desired.kind)

(* The conditions end the run, or nothing more can be tried. *)
Ends(desired) ==
  /\ \/ conditions = "completed"
     \/ NoProgress(desired)
     \/ desired = Unwanted /\ Remediable
     \/ Works(desired) /\ ~Waits /\ Exhausted(desired)
  /\ End

Settles(desired) ==
  /\ conditions # "completed" /\ ~NoProgress(desired)
  /\ \/ /\ desired = Unwanted /\ ~Remediable
        /\ settle(IF Waits THEN conditions ELSE "goal_state_reached")
     \/ /\ Works(desired) /\ Waits
        /\ settle(conditions)
     \/ /\ Works(desired) /\ ~Waits /\ ~Exhausted(desired) /\ Op(desired).refused
        /\ settle("deterministic_failure_unchanged")

(* runOperation up to its handler: the attempt is spent when it starts. *)
Start(desired) ==
  /\ Works(desired) /\ conditions = "active" /\ ~NoProgress(desired)
  /\ ~Exhausted(desired) /\ ~Op(desired).refused
  /\ journal' = [journal EXCEPT !.stands = FALSE]
  /\ ops' = [k \in DOMAIN ops \cup {desired} |->
               IF k = desired THEN [Op(desired) EXCEPT !.attempt = @ + 1] ELSE ops[k]]
  /\ doing' =
       [Idle EXCEPT !.pc = "handle", !.key = desired,
          !.answered = journal.candidate \in journal.approvals,
          !.failure = IF Counts(desired) THEN Fingerprint ELSE doing.failure,
          !.repeats = IF Counts(desired) THEN Repeats ELSE doing.repeats]
  /\ UNCHANGED <<seen, commits, workspace, forge, faults>>

(* An observation starts even in a run that waits, which it then records    *)
(* first; the key it was planned under is the epoch before that.            *)
StartsObserving(kind, desired) == conditions # "completed" /\ desired.kind = kind
Unmoved == ~Waits \/ journal.waits = conditions

Handles(kind) == doing.pc = "handle" /\ doing.key.kind = kind

(* What a handler returns: the events to journal and the operation's end.   *)
(* The attempts of an operation that succeeded are of no further use.       *)
Produce(events, after, settles) ==
  doing' = [doing EXCEPT !.pc = "append", !.events = events, !.after = after, !.settles = settles]
Succeeded == [Fresh EXCEPT !.state = "succeeded", !.at = Op(doing.key).at]
Failed == [Op(doing.key) EXCEPT !.state = "failed"]

(* runOperation after its handler: the events, one by one, then the end of  *)
(* the operation.  An observation made at this epoch satisfies it.          *)
AppendEvent ==
  /\ doing.pc = "append" /\ doing.events # <<>>
  /\ journal' = apply(journal, doing.events[1])
  /\ seen' = {}
  /\ doing' = [doing EXCEPT !.events = Tail(@), !.current = FALSE]
  /\ UNCHANGED <<ops, commits, workspace, forge, faults>>

Finish ==
  LET k == doing.key
  IN  /\ doing.pc = "append" /\ doing.events = <<>>
      /\ IF k.kind \in Observations
         THEN /\ seen' = IF doing.current THEN seen \cup {k.kind} ELSE seen
              /\ ops' = ops
         ELSE /\ ops' = [ops EXCEPT ![k] = doing.after]
              /\ UNCHANGED seen
      /\ doing' = IF doing.settles = "none"
                  THEN [Idle EXCEPT !.failure = doing.failure, !.repeats = doing.repeats]
                  ELSE [doing EXCEPT !.pc = "settle"]
      /\ UNCHANGED <<journal, commits, workspace, forge, faults>>

SettleAfter == doing.pc = "settle" /\ settle(doing.settles)

-----------------------------------------------------------------------------
(* The handlers.                                                            *)

(* What may go wrong, within the bound on faults. *)
Fault == faults < MaxFaults /\ faults' = faults + 1

(* The workspace stands at the recorded revision. *)
workspaceSound == workspace.work # "none" /\ workspace.head = journal.candidate

(* A commit on the workspace's head, or one that replaces its history. *)
Made == 1 .. Len(commits)
NextRevision == Len(commits) + 1
Line(head) == IF head = None THEN {} ELSE commits[head].ancestors \cup {head}
NewCommit(ancestors, base, whole) ==
  commits' = Append(commits, [ancestors |-> ancestors, base |-> base, whole |-> whole, passed |-> FALSE])
isAncestor(head, rev) ==
  head \in Made /\ head \in Line(rev)

(* The first observation pins the base; the issue itself does not change. *)
observeSource(desired) ==
  LET pinned == IF journal.pinned = None THEN forge.base ELSE journal.pinned
  IN  /\ StartsObserving("source", desired)
      /\ IF Unmoved
         THEN /\ journal' = [journal EXCEPT !.pinned = pinned]
              /\ seen' = seen \cup {"source"}
         ELSE recordDisposition(conditions)
      /\ UNCHANGED <<ops, commits, workspace, forge, doing, faults>>

compileContract ==
  /\ Handles("contract")
  /\ Produce(<<Event("contract_compiled", None, "")>>, Succeeded, "none")
  /\ UNCHANGED <<journal, seen, ops, commits, workspace, forge, faults>>

(* A clone at the pinned base, or the one an earlier attempt left. *)
createCandidate ==
  /\ Handles("create")
  /\ workspace' = IF workspace.work = "none" THEN [workspace EXCEPT !.work = "clean"] ELSE workspace
  /\ Produce(<<>>, Succeeded, "none")
  /\ UNCHANGED <<journal, seen, ops, commits, forge, faults>>

(* The worker finishes, is cut off with work that is kept as a checkpoint,  *)
(* or fails.  Work an earlier attempt left in the workspace counts.         *)
invokeExecution ==
  /\ Handles("invoke") /\ workspaceSound
  /\ UNCHANGED <<journal, seen, ops, forge>>
  /\ \/ \E work \in {"whole", IF workspace.work = "clean" THEN "clean" ELSE "whole"} :
          /\ work = "whole" => Len(commits) < MaxRevision
          /\ workspace' = [workspace EXCEPT !.work = work]
          /\ commits' = IF work = "clean" /\ journal.candidate # None
                        THEN [commits EXCEPT ![journal.candidate].whole = TRUE] ELSE commits
          /\ Produce(<<Event("candidate_changed", None, ""), Event("execution_completed", None, "")>>,
                     [Succeeded EXCEPT !.mutated = work # "clean"], "none")
          /\ UNCHANGED faults
     \/ /\ Len(commits) < MaxRevision
        /\ workspace' = [workspace EXCEPT !.work = "partial"]
        /\ Produce(<<Event("candidate_changed", None, "")>>,
                   [Succeeded EXCEPT !.mutated = TRUE, !.checkpoint = TRUE], "none")
        /\ UNCHANGED <<commits, faults>>
     \/ /\ Fault
        /\ \E work \in {"clean", "partial"} : workspace' = [workspace EXCEPT !.work = work]
        /\ \E settles \in {"none", "operation_unavailable"} :
             Produce(<<Event("candidate_changed", None, "")>>, Failed, settles)
        /\ UNCHANGED commits

(* A commit of everything uncommitted, in the name of the oldest invocation *)
(* that is not committed.  The commit can fail after Git made it; a later   *)
(* attempt recovers only a commit that an attempt recorded.  A workspace    *)
(* with nothing to commit, or at an unproven head, is refused for good.     *)
commitCandidate ==
  LET k == doing.key
      checkpoint == ops[[k EXCEPT !.kind = "invoke"]].checkpoint
      committed(rev) ==
        Produce(<<Event(IF checkpoint THEN "candidate_checkpointed" ELSE "candidate_committed", rev, "")>>,
                Succeeded, IF checkpoint THEN "execution_checkpointed" ELSE "none")
  IN  /\ Handles("commit")
      /\ \/ /\ workspaceSound /\ workspace.work # "clean" /\ Len(commits) < MaxRevision
            /\ NewCommit(Line(workspace.head),
                         IF workspace.head = None THEN journal.pinned ELSE commits[workspace.head].base,
                         workspace.work = "whole")
            /\ workspace' = [head |-> NextRevision, work |-> "clean"]
            /\ \/ committed(NextRevision) /\ UNCHANGED faults
               \/ Fault /\ Produce(<<>>, [Failed EXCEPT !.made = NextRevision], "none")
         \/ /\ ~workspaceSound /\ Op(k).made = workspace.head
            /\ committed(workspace.head)
            /\ UNCHANGED <<commits, workspace, faults>>
         \/ /\ IF workspaceSound THEN workspace.work = "clean" ELSE Op(k).made # workspace.head
            /\ Produce(<<>>, [Failed EXCEPT !.refused = TRUE], "none")
            /\ UNCHANGED <<commits, workspace, faults>>
      /\ UNCHANGED <<journal, seen, ops, forge>>

(* The verifier runs on a checkout of the candidate commit.  An outcome     *)
(* that is not a verdict on the candidate fails the operation.              *)
assureCandidate ==
  /\ Handles("assure") /\ workspaceSound
  /\ \E verdict \in {"passed", "refused", "unproved"} :
       /\ commits' = [commits EXCEPT ![journal.candidate].passed = verdict = "passed"]
       /\ Produce(<<Event("assurance_observed", journal.candidate, verdict)>>,
                  IF verdict = "unproved" THEN Failed ELSE Succeeded, "none")
       /\ IF verdict = "unproved" THEN Fault ELSE UNCHANGED faults
  /\ UNCHANGED <<journal, seen, ops, workspace, forge>>

(* A moved base is rebased onto before publication and merged after it;     *)
(* uncommitted work can make either fail.                                   *)
integrateBase ==
  LET candidate == journal.candidate
  IN  /\ Handles("integrate") /\ workspaceSound
      /\ \/ /\ forge.base = baseRevision(journal) \/ commits[candidate].base = forge.base
            /\ Produce(<<>>, Succeeded, "none")
            /\ UNCHANGED <<commits, workspace>>
         \/ /\ forge.base # baseRevision(journal) /\ commits[candidate].base # forge.base
            /\ \/ /\ Len(commits) < MaxRevision
                  /\ NewCommit(IF published THEN Line(candidate) ELSE {}, forge.base,
                               commits[candidate].whole)
                  /\ workspace' = [workspace EXCEPT !.head = NextRevision]
                  /\ Produce(<<Event("base_integrated", NextRevision, "")>>, Succeeded, "none")
               \/ /\ workspace.work # "clean"
                  /\ Produce(<<>>, Failed, "none")
                  /\ UNCHANGED <<commits, workspace>>
      /\ UNCHANGED <<journal, seen, ops, forge, faults>>

(* The decision is taken on the journal this pass loaded. *)
evaluateAuthority ==
  /\ Handles("authority")
  /\ Produce(<<Event("authority_evaluated", None,
                     IF journal.candidate \in Gated /\ ~doing.answered
                     THEN "awaiting" ELSE "authorized")>>, Succeeded, "none")
  /\ UNCHANGED <<journal, seen, ops, commits, workspace, forge, faults>>

(* The remote ref is read first; what is there decides.  The push is never  *)
(* forced, so the forge takes it only as a fast-forward.                    *)
readRemote ==
  /\ Handles("push") /\ workspaceSound
  /\ doing' = [doing EXCEPT !.pc = "push", !.remote = forge.branch]
  /\ UNCHANGED <<journal, seen, ops, commits, workspace, forge, faults>>

FastForward(branch, rev) == branch = None \/ isAncestor(branch, rev)
(* Variant of pushCandidate that forces the push. *)
pushCandidateForced ==
  LET candidate == journal.candidate
  IN  /\ doing.pc = "push"
      /\ IF doing.remote # candidate /\ ~FastForward(doing.remote, candidate)
         THEN /\ Produce(<<Event("external_changed", doing.remote, "")>>, Failed, "none")
              /\ UNCHANGED forge
         ELSE /\ Produce(<<>>, Succeeded, "none")
              /\ forge' = [forge EXCEPT !.branch = candidate]
      /\ UNCHANGED <<journal, seen, ops, commits, workspace, faults>>
pushCandidate ==
  LET candidate == journal.candidate
      remote == doing.remote
  IN  /\ doing.pc = "push"
      /\ \/ /\ remote = candidate
            /\ Produce(<<>>, Succeeded, "none") /\ UNCHANGED forge
         \/ /\ remote # candidate /\ ~FastForward(remote, candidate)
            /\ Produce(<<Event("external_changed", remote, "")>>, Failed, "none")
            /\ UNCHANGED forge
         \/ /\ remote # candidate /\ FastForward(remote, candidate)
            /\ IF FastForward(forge.branch, candidate)
               THEN /\ forge' = [forge EXCEPT !.branch = candidate]
                    /\ Produce(<<>>, Succeeded, "none")
               ELSE Produce(<<>>, Failed, "none") /\ UNCHANGED forge
      /\ UNCHANGED <<journal, seen, ops, commits, workspace, faults>>

prObservation == Event("pr_observed", forge.branch, IF forge.merged THEN "merged" ELSE "open")

(* Variant of FindPullRequests that leaves out the ones that are closed. *)
FindOpenPullRequests == IF forge.merged THEN 0 ELSE forge.own + forge.theirs
(* The search by branch and base: whoever opened them, open or closed. *)
FindPullRequests == forge.own + forge.theirs

(* The pull request that is found is adopted; more than one is refused. *)
findPullRequests ==
  /\ Handles("create_pr")
  /\ \/ FindPullRequests = 0 /\ doing' = [doing EXCEPT !.pc = "open"]
     \/ FindPullRequests = 1 /\ Produce(<<prObservation>>, Succeeded, "none")
     \/ FindPullRequests > 1 /\ Produce(<<>>, Failed, "none")
  /\ UNCHANGED <<journal, seen, ops, commits, workspace, forge, faults>>

(* One that was not found is opened, on what the search said: the reply can *)
(* be lost after the forge opened it, and the forge may refuse it beside    *)
(* one that somebody opened meanwhile.                                      *)
createPullRequest ==
  /\ doing.pc = "open"
  /\ \/ /\ forge' = [forge EXCEPT !.own = @ + 1]
        /\ \/ Produce(<<prObservation>>, Succeeded, "none") /\ UNCHANGED faults
           \/ Fault /\ Produce(<<>>, Failed, "none")
     \/ /\ forge.theirs > 0 /\ UNCHANGED <<forge, faults>>
        /\ Produce(<<>>, Failed, "none")
  /\ UNCHANGED <<journal, seen, ops, commits, workspace>>

updatePullRequest ==
  /\ Handles("update_pr")
  /\ Produce(<<prObservation>>, Succeeded, "none")
  /\ UNCHANGED <<journal, seen, ops, commits, workspace, forge, faults>>

(* Variant of changed under which every observation is news. *)
changedAlways(fresh, recorded) == TRUE
(* An observation is journalled only when it differs from the recorded one. *)
changed(fresh, recorded) == fresh # recorded
observeGitHub(desired) ==
  LET head == forge.branch
      pr == [head |-> head, merged |-> forge.merged]
      ci == [head |-> head, failing |-> head \in forge.failing]
      known == workspaceSound /\ isAncestor(head, journal.candidate)
      when(condition, event) == IF condition THEN <<event>> ELSE <<>>
  IN  /\ StartsObserving("forge", desired)
      /\ IF Waits THEN recordDisposition(conditions) ELSE UNCHANGED <<journal, seen>>
      /\ doing' =
           [doing EXCEPT !.pc = "append", !.key = desired, !.current = Unmoved,
              !.events =
                when(changed(pr, journal.pr), prObservation)
                \o when(head # journal.candidate /\ journal.external = None /\ ~known,
                        Event("external_changed", head, ""))
                \o when(changed(ci, journal.ci),
                        Event("ci_observed", head, IF ci.failing THEN "failing" ELSE "passing"))]
      /\ UNCHANGED <<ops, commits, workspace, forge, faults>>

(* A handler that cannot do its work: the workspace is not at the recorded  *)
(* revision, or something it needs is out of reach.                         *)
HandlerFails ==
  /\ doing.pc \in {"handle", "open"}
  /\ \/ doing.key.kind \in {"invoke", "assure", "integrate", "push"} /\ ~workspaceSound /\ UNCHANGED faults
     \/ Fault
  /\ Produce(<<>>, Failed, "none")
  /\ UNCHANGED <<journal, seen, ops, commits, workspace, forge>>

(* The process dies; a worker it was running may have changed the files. *)
Crash ==
  /\ doing.pc # "idle" /\ Fault
  /\ doing' = Idle
  /\ \/ UNCHANGED workspace
     \/ /\ Handles("invoke") /\ workspaceSound /\ workspace.work = "clean"
        /\ workspace' = [workspace EXCEPT !.work = "partial"]
  /\ UNCHANGED <<journal, seen, ops, commits, forge>>

-----------------------------------------------------------------------------
(* Everybody else.                                                          *)

OutsideSteps ==
  forge.base - 1 + forge.theirs + Cardinality(forge.failing)
  + Cardinality({x \in {"foreign", "merged"} :
                   IF x = "merged" THEN forge.merged ELSE forge.branch = Foreign})
Outside == ~journal.ended /\ OutsideSteps < MaxOutside

BaseMoves ==
  /\ Outside /\ forge.base < MaxBase
  /\ forge' = [forge EXCEPT !.base = @ + 1]
  /\ UNCHANGED <<journal, seen, ops, commits, workspace, doing, faults>>

ForeignPush ==
  /\ Outside /\ forge.branch # Foreign /\ ~forge.merged
  /\ forge' = [forge EXCEPT !.branch = Foreign]
  /\ UNCHANGED <<journal, seen, ops, commits, workspace, doing, faults>>

(* Somebody opens a pull request of the run's branch themselves. *)
OpensPullRequest ==
  /\ Outside /\ forge.branch # None /\ forge.theirs = 0 /\ ~forge.merged
  /\ forge' = [forge EXCEPT !.theirs = 1]
  /\ UNCHANGED <<journal, seen, ops, commits, workspace, doing, faults>>

(* The pull requests of one branch are merged together. *)
Merges ==
  /\ Outside /\ forge.own + forge.theirs > 0 /\ ~forge.merged
  /\ forge' = [forge EXCEPT !.merged = TRUE]
  /\ UNCHANGED <<journal, seen, ops, commits, workspace, doing, faults>>

ChecksFail ==
  /\ Outside /\ forge.own + forge.theirs > 0 /\ forge.branch \in Made /\ forge.failing = {}
  /\ forge' = [forge EXCEPT !.failing = {forge.branch}]
  /\ UNCHANGED <<journal, seen, ops, commits, workspace, doing, faults>>

(* Authorize: an answer for the candidate, whenever its contract requires   *)
(* one and none is recorded.                                                *)
Authorize ==
  LET candidate == journal.candidate
  IN  /\ candidate \in Gated \ journal.approvals
      /\ journal.external = None /\ ~journal.ended
      /\ journal' = [journal EXCEPT !.approvals = @ \cup {candidate}, !.stands = FALSE,
                                    !.decision.answer = candidate]
      /\ seen' = {}
      /\ doing' = [doing EXCEPT !.current = FALSE]
      /\ UNCHANGED <<ops, commits, workspace, forge, faults>>

-----------------------------------------------------------------------------
(* One pass over the loaded journal. *)
Pass ==
  /\ doing.pc = "idle" /\ ~journal.ended
  /\ LET desired == plan
     IN  \/ Ends(desired) \/ Settles(desired) \/ Start(desired)
         \/ observeSource(desired) \/ observeGitHub(desired)

Driver ==
  \/ Pass \/ AppendEvent \/ Finish \/ SettleAfter
  \/ compileContract \/ createCandidate \/ invokeExecution
  \/ commitCandidate \/ assureCandidate \/ integrateBase \/ evaluateAuthority
  \/ readRemote \/ pushCandidate \/ findPullRequests \/ createPullRequest
  \/ updatePullRequest \/ HandlerFails
Next ==
  \/ Driver \/ Crash
  \/ BaseMoves \/ ForeignPush \/ OpensPullRequest \/ Merges \/ ChecksFail \/ Authorize

Spec == Init /\ [][Next]_vars
(* The supervisor drives a run that is not terminal again and again. *)
FairSpec == Spec /\ WF_vars(Driver)

-----------------------------------------------------------------------------
(* Properties.                                                              *)

(* The records stay within their types: revisions are commits that were     *)
(* made, answers are for revisions that need one, and no operation starts   *)
(* more often than its attempts allow, crashes included.                    *)
TypeOK ==
  /\ journal.candidate \in Made \cup {None}
  /\ journal.external \in Made \cup {None, Foreign}
  /\ journal.approvals \subseteq Gated
  /\ seen \subseteq Observations
  /\ \A k \in DOMAIN ops : ops[k].attempt <= attemptsFor(k.kind)
  /\ Len(commits) <= MaxRevision
  /\ workspace.head \in Made \cup {None}
  /\ forge.branch \in Made \cup {None, Foreign}
  /\ faults \in 0 .. MaxFaults

(* What stands on the run's branch by the runtime's hand passed the         *)
(* verifier as exactly that commit and, where its contract requires a       *)
(* human, was approved as exactly that commit: a rebase, a merge of the     *)
(* base, a remediation or a crash in between never carries a verdict or a   *)
(* decision over to another revision.                                       *)
PushedWasProved ==
  forge.branch \in Made =>
    /\ commits[forge.branch].passed
    /\ forge.branch \in Gated => forge.branch \in journal.approvals

(* The runtime opens one pull request for a run.  Searching and opening are *)
(* two calls: the opening may be cut off by a crash or lose its reply, be   *)
(* tried again after others opened one or merged, and still nothing is      *)
(* opened a second time (operations.go:2952).                               *)
OnePullRequest == forge.own <= 1

(* The run's branch only ever moves forward by the runtime's hand, and a    *)
(* head somebody else pushed - before the remote is read or after it - is   *)
(* never replaced.                                                          *)
HistoryKept ==
  [][forge'.branch # forge.branch /\ forge'.branch # Foreign
       => FastForward(forge.branch, forge'.branch)]_forge

(* A run whose branch nobody else moved comes to rest once the world does:  *)
(* observing, recording why it waits and trying again do not feed each      *)
(* other for ever.                                                          *)
Rests == <>[](journal.external = None) => <>[][FALSE]_<<journal, seen, ops>>

(* A candidate that was published holds everything a worker that finished   *)
(* left, never only what an interrupted one did (projection.go:80, "it is   *)
(* why assurance cannot run on interrupted work").                          *)
FinishedBeforePublished == forge.branch \in Made => commits[forge.branch].whole
=============================================================================
