----------------------- MODULE CandidatePipelineProofs -----------------------
(***************************************************************************)
(* What a run's way to its pull request keeps, for any number of commits,  *)
(* bases, attempts, faults and steps of others (module CandidatePipeline): *)
(* types and attempt budgets, that what the runtime pushed was proved and  *)
(* approved as that commit, that there is one pull request, and that       *)
(* history on the branch is kept.                                          *)
(*                                                                         *)
(* The verdict, the decision and the push are three operations with any    *)
(* number of passes between them, and what ties them to one commit is      *)
(* spread over the journal, the operations that succeeded and what the     *)
(* driver has in hand.  JudgedOK and DecidedOK say what the journal and    *)
(* the operations tell about the commits, HandOK and EndOK what stands     *)
(* while an operation is handled and while its end is being journalled.    *)
(***************************************************************************)
EXTENDS CandidatePipeline, FiniteSetTheorems, WellFoundedInduction, TLAPS

-----------------------------------------------------------------------------
(* Types.                                                                   *)

Heads == Made \cup {None}
Tips == Made \cup {None, Foreign}
BaseOrNone == Bases \cup {None}
Verdicts == {"none", "passed", "refused", "unproved"}
Statuses == {"none", "awaiting", "authorized"}
Reasons ==
  {"none", "goal_state_reached", "candidate_external_changed", "awaiting_authority",
   "deterministic_failure_unchanged", "execution_checkpointed", "operation_unavailable"}
Marks ==
  {"", "initial", "continuation", "refused", "checks", "unproved", "none",
   "local", "pushed", "unpushed", "published", "asked", "answered"}
Details ==
  {"", "passed", "refused", "unproved", "awaiting", "authorized", "merged", "open", "failing", "passing"}

JournalOver(heads, tips) ==
  [pinned : BaseOrNone, contract : BOOLEAN, candidate : heads, complete : BOOLEAN,
   base : BaseOrNone, assurance : [commit : heads, verdict : Verdicts],
   external : tips, decision : [status : Statuses, answer : heads],
   approvals : SUBSET Gated, pr : [head : tips, merged : BOOLEAN],
   ci : [head : tips, failing : BOOLEAN], waits : Reasons, stands : BOOLEAN, ended : BOOLEAN]

Commits == [ancestors : SUBSET Nat, base : BaseOrNone, whole : BOOLEAN, passed : BOOLEAN]
WorkStates == {"none", "clean", "partial", "whole"}

Kinds ==
  {"contract", "create", "invoke", "commit", "assure", "integrate", "authority", "push",
   "create_pr", "update_pr"}
Keys == [kind : Kinds, rev : Heads, mark : Marks]
OpOver(heads) ==
  [state : {"planned", "failed", "succeeded"}, attempt : Nat, mutated : BOOLEAN,
   checkpoint : BOOLEAN, made : heads, refused : BOOLEAN, at : Nat]
OpType == OpOver(Heads)

Harmless ==
  [type : {"contract_compiled", "candidate_changed", "execution_completed", "external_changed",
           "pr_observed", "ci_observed"}, rev : Tips, what : Details]
AllEvents ==
  {"contract_compiled", "candidate_changed", "execution_completed", "external_changed",
   "pr_observed", "ci_observed", "candidate_committed", "candidate_checkpointed",
   "base_integrated", "assurance_observed", "authority_evaluated"}
HeadEvents == {"candidate_committed", "candidate_checkpointed", "base_integrated"}

(* The variables hold what they are for. *)
DataOK ==
  /\ journal \in JournalOver(Heads, Tips)
  /\ commits \in Seq(Commits) /\ Len(commits) <= MaxRevision
  /\ workspace \in [head : Heads, work : WorkStates]
  /\ forge \in [base : Bases, branch : Tips, own : Nat, theirs : {0, 1}, merged : BOOLEAN,
              failing : SUBSET Made]
  /\ seen \subseteq Observations
  /\ faults \in 0 .. MaxFaults

OpsOK ==
  /\ IsFiniteSet(DOMAIN ops)
  /\ \A k \in DOMAIN ops :
       k \in Keys /\ ops[k] \in OpType /\ ops[k].attempt <= attemptsFor(k.kind)

(* The workspace is never behind the candidate; there is one before an      *)
(* invocation is planned.                                                   *)
WorkspaceOK ==
  /\ journal.candidate # None => workspace.head # None /\ journal.candidate <= workspace.head
  /\ \A k \in DOMAIN ops :
       k.kind \in {"invoke", "commit"} \/ (k.kind = "create" /\ ops[k].state = "succeeded")
         => workspace.work # "none"

(* Verdicts are about the candidate or an earlier one, and only about what  *)
(* was complete.                                                            *)
AssureKey(rev) == Key("assure", rev, "")
Done(k) == k \in DOMAIN ops /\ ops[k].state = "succeeded"
JudgedOK ==
  /\ journal.assurance.commit # None =>
       /\ journal.contract
       /\ journal.candidate # None /\ journal.assurance.commit <= journal.candidate
       /\ journal.assurance.commit = journal.candidate => journal.complete
       /\ journal.assurance.verdict = "passed" /\ Done(AssureKey(journal.assurance.commit))
            => commits[journal.assurance.commit].passed
  /\ \A k \in DOMAIN ops :
       k.kind \in {"assure", "authority"} =>
         k.rev # None /\ journal.candidate # None /\ k.rev <= journal.candidate

(* A decision that was taken without the answer it needs authorises         *)
(* nothing.                                                                 *)
DecidedOK ==
  journal.candidate \in Gated \ journal.approvals
    /\ Done(Key("authority", journal.candidate, "asked"))
    => journal.decision.status # "authorized"

(* What stands on the branch by the runtime's hand. *)
Proved(rev) ==
  /\ Done(AssureKey(rev)) /\ commits[rev].passed
  /\ rev \in Gated => rev \in journal.approvals
BranchOK == forge.branch \in Made => Proved(forge.branch)

(* The driver's record. *)
DoingType ==
  /\ doing.pc \in {"idle", "handle", "push", "open", "append", "settle"}
  /\ DOMAIN doing = DOMAIN Idle
  /\ doing.remote \in Tips
  /\ doing.settles \in {"none", "execution_checkpointed", "operation_unavailable"}

OfCandidate(k) == k.rev # None /\ k.rev = journal.candidate

(* While an operation is handled. *)
HandOK ==
  doing.pc \in {"handle", "push", "open"} =>
    /\ doing.key \in DOMAIN ops /\ ops[doing.key].state # "succeeded"
    /\ doing.key.kind \in {"assure", "authority", "push"} => OfCandidate(doing.key)
    /\ doing.key.kind = "integrate" => journal.candidate # None
    /\ doing.key.kind = "assure" => doing.key.mark = "" /\ journal.contract /\ journal.complete
    /\ doing.key.kind = "authority" =>
         /\ doing.key.mark = IF doing.answered THEN "answered" ELSE "asked"
         /\ doing.answered => doing.key.rev \in journal.approvals
    /\ doing.key.kind = "push" => Proved(doing.key.rev)
    /\ doing.pc = "push" => doing.key.kind = "push"
    /\ doing.pc = "open" => doing.key.kind = "create_pr"

(* While its events and its end are journalled. *)
NewHead(e) ==
  /\ e.type \in HeadEvents
  /\ e.rev \in Made /\ e.rev = workspace.head
  /\ journal.candidate # None => journal.candidate < e.rev
NewVerdict(e) ==
  /\ e.type = "assurance_observed" /\ e.rev = doing.key.rev
  /\ e.what \in Verdicts /\ (e.what = "passed" => commits[e.rev].passed)
NewDecision(e) ==
  /\ e.type = "authority_evaluated"
  /\ e.what \in Statuses
  /\ doing.key.rev \in Gated /\ doing.key.mark = "asked" => e.what # "authorized"
EventsOK ==
  \/ /\ doing.events \in Seq(Harmless)
     /\ doing.key.kind \in {"assure", "authority"} => doing.events = <<>>
  \/ \E e \in [type : AllEvents, rev : Tips, what : Details] :
       /\ doing.events = <<e>>
       /\ \/ doing.key.kind \in {"commit", "integrate"} /\ NewHead(e)
          \/ doing.key.kind = "assure" /\ NewVerdict(e)
          \/ doing.key.kind = "authority" /\ NewDecision(e)
EndOK ==
  doing.pc = "append" =>
    /\ EventsOK
    /\ doing.key.kind \notin Observations =>
         /\ doing.key \in DOMAIN ops /\ ops[doing.key].state # "succeeded"
         /\ doing.after \in OpType /\ doing.after.attempt <= attemptsFor(doing.key.kind)
    /\ doing.key.kind \in {"assure", "authority"} => OfCandidate(doing.key)
    /\ doing.key.kind = "assure" => doing.key.mark = "" /\ journal.contract /\ journal.complete
    /\ doing.key.kind = "authority" => doing.key.mark = "asked" \/ doing.key.rev \in journal.approvals
    /\ doing.key.kind = "create" /\ doing.after.state = "succeeded" => workspace.work # "none"
    /\ doing.key.kind = "assure" /\ doing.after.state = "succeeded" /\ doing.events = <<>> =>
         journal.assurance.commit = doing.key.rev
           /\ (journal.assurance.verdict = "passed" => commits[doing.key.rev].passed)
    /\ doing.key.kind = "authority" /\ doing.after.state = "succeeded" /\ doing.events = <<>> =>
         (doing.key.rev \in Gated /\ doing.key.mark = "asked" => journal.decision.status # "authorized")

PipelineInv ==
  /\ DataOK /\ OpsOK /\ WorkspaceOK /\ JudgedOK /\ DecidedOK /\ BranchOK
  /\ DoingType /\ HandOK /\ EndOK

-----------------------------------------------------------------------------
(* Numbers and names.                                                       *)

LEMMA Names ==
  /\ None # Foreign /\ None \notin Nat /\ Foreign \notin Nat
  /\ MaxRevision \in Nat \ {0} /\ MaxBase \in Nat \ {0} /\ MaxAttempts \in Nat \ {0} /\ MaxFaults \in Nat
  BY PipelineAssumption

LEMMA Least ==
  ASSUME NEW S \in SUBSET Nat, S # {}
  PROVE  \E x \in S : \A y \in S : x <= y
<1>1. PICK x \in S : \A y \in S : ~(<<y, x>> \in OpToRel(<, Nat))
  BY NatLessThanWellFounded, WFMin, Zenon
<1>2. \A y \in S : ~(y < x)
  BY <1>1 DEF OpToRel
<1> QED
  BY <1>2

LEMMA JournalWider ==
  ASSUME NEW H, NEW T, NEW H2, NEW T2, H \subseteq H2, T \subseteq T2, NEW j \in JournalOver(H, T)
  PROVE  j \in JournalOver(H2, T2)
<1>1. j.assurance \in [commit : H2, verdict : Verdicts]
  BY DEF JournalOver
<1>2. j.decision \in [status : Statuses, answer : H2]
  BY DEF JournalOver
<1>3. j.pr \in [head : T2, merged : BOOLEAN]
  BY DEF JournalOver
<1>4. j.ci \in [head : T2, failing : BOOLEAN]
  BY DEF JournalOver
<1> QED
  BY <1>1, <1>2, <1>3, <1>4 DEF JournalOver

LEMMA OpWider ==
  ASSUME NEW H, NEW H2, H \subseteq H2, NEW op \in OpOver(H)
  PROVE  op \in OpOver(H2)
  BY DEF OpOver

-----------------------------------------------------------------------------
(* The planner.                                                             *)

LEMMA NeverUnwanted ==
  ASSUME OpsOK
  PROVE  ~satisfied(Unwanted)
<1>1. Unwanted.kind = "none"
  BY DEF Unwanted, Key
<1> QED
  BY <1>1 DEF OpsOK, satisfied, Keys, Kinds, Observations

LEMMA Fields ==
  ASSUME DataOK
  PROVE  /\ journal.candidate \in Heads /\ journal.assurance.commit \in Heads
         /\ journal.assurance.verdict \in Verdicts /\ journal.decision.status \in Statuses
         /\ journal.contract \in BOOLEAN /\ journal.complete \in BOOLEAN
         /\ journal.approvals \subseteq Gated /\ journal.external \in Tips
         /\ journal.pinned \in BaseOrNone /\ journal.stands \in BOOLEAN
  BY DEF DataOK, JournalOver

LEMMA KeyFields ==
  \A kind, rev, mark :
    /\ Key(kind, rev, mark).kind = kind /\ Key(kind, rev, mark).rev = rev
    /\ Key(kind, rev, mark).mark = mark
  BY DEF Key

LEMMA KeyMade ==
  \A kind \in Kinds, rev \in Heads, mark \in Marks : Key(kind, rev, mark) \in Keys
  BY DEF Key, Keys

LEMMA Vocabulary ==
  /\ None \in Heads /\ "contract" \in Kinds /\ "create" \in Kinds /\ "invoke" \in Kinds
  /\ "commit" \in Kinds /\ "assure" \in Kinds /\ "integrate" \in Kinds /\ "authority" \in Kinds
  /\ "push" \in Kinds /\ "create_pr" \in Kinds /\ "update_pr" \in Kinds
  /\ "" \in Marks /\ "initial" \in Marks /\ "continuation" \in Marks /\ "asked" \in Marks
  /\ "answered" \in Marks /\ "local" \in Marks /\ "pushed" \in Marks /\ "unpushed" \in Marks
  /\ "published" \in Marks
  BY DEF Heads, Kinds, Marks

(* What each binding is, if it is wanted. *)
LEMMA EarlyBindings ==
  ASSUME DataOK, OpsOK
  PROVE  /\ bindSourceObserve.kind = "source"
         /\ bindGitHubObserve = Unwanted \/ bindGitHubObserve.kind = "forge"
         /\ \/ bindContractCompile = Unwanted
            \/ bindContractCompile \in Keys /\ bindContractCompile.kind = "contract"
         /\ \/ bindCandidateCreate = Unwanted
            \/ /\ bindCandidateCreate = Key("create", None, "")
               /\ bindCandidateCreate \in Keys /\ bindCandidateCreate.kind = "create"
         /\ \/ bindExecutionInvoke = Unwanted
            \/ /\ bindExecutionInvoke \in Keys /\ bindExecutionInvoke.kind = "invoke"
               /\ satisfied(Key("create", None, ""))
<1>1. bindSourceObserve.kind = "source"
  BY DEF bindSourceObserve, Key
<1>2. bindGitHubObserve = Unwanted \/ bindGitHubObserve.kind = "forge"
  BY DEF bindGitHubObserve, Key
<1>3. \/ bindContractCompile = Unwanted
      \/ bindContractCompile \in Keys /\ bindContractCompile.kind = "contract"
  <2>1. Key("contract", None, "") \in Keys
    BY KeyMade, Vocabulary
  <2>2. Key("contract", None, "").kind = "contract"
    BY KeyFields
  <2> QED
    BY <2>1, <2>2 DEF bindContractCompile
<1>4. \/ bindCandidateCreate = Unwanted
      \/ /\ bindCandidateCreate = Key("create", None, "")
         /\ bindCandidateCreate \in Keys /\ bindCandidateCreate.kind = "create"
  <2>1. Key("create", None, "") \in Keys
    BY KeyMade, Vocabulary
  <2>2. Key("create", None, "").kind = "create"
    BY KeyFields
  <2> QED
    BY <2>1, <2>2 DEF bindCandidateCreate
<1>5. CASE bindExecutionInvoke # Unwanted
  <2>1. journal.contract /\ satisfied(bindCandidateCreate)
    BY <1>5, Fields DEF bindExecutionInvoke
  <2>2. satisfied(Key("create", None, ""))
    BY <1>4, <2>1, NeverUnwanted
  <2>3. currentHeadFailure \in Marks
    BY Fields DEF currentHeadFailure, Verdicts, Marks
  <2>4. PICK rev \in Heads, mark \in Marks : bindExecutionInvoke = Key("invoke", rev, mark)
    BY <1>5, <2>3, Fields, Vocabulary DEF bindExecutionInvoke
  <2>5. bindExecutionInvoke \in Keys
    BY <2>4, KeyMade, Vocabulary
  <2>6. bindExecutionInvoke.kind = "invoke"
    BY <2>4, KeyFields
  <2> QED
    BY <1>1, <1>2, <1>3, <1>4, <2>2, <2>5, <2>6
<1> QED
  BY <1>1, <1>2, <1>3, <1>4, <1>5

LEMMA CommitBinding ==
  ASSUME DataOK, OpsOK, bindCandidateCommit # Unwanted
  PROVE  /\ bindCandidateCommit \in Keys /\ bindCandidateCommit.kind = "commit"
         /\ \E k \in DOMAIN ops : k.kind = "invoke"
<1> DEFINE S == {ops[k].at : k \in Uncommitted}
           Oldest(k) == \A other \in Uncommitted : ops[k].at <= ops[other].at
           b == CHOOSE k \in Uncommitted : Oldest(k)
<1>1. Uncommitted # {} /\ bindCandidateCommit = CommitOf(b)
  BY DEF bindCandidateCommit
<1>2. Uncommitted \subseteq DOMAIN ops /\ \A k \in Uncommitted : k.kind = "invoke"
  BY DEF Uncommitted
<1>3. \A k \in Uncommitted : k \in Keys /\ ops[k].at \in Nat
  BY <1>2 DEF OpsOK, OpType, OpOver
<1>4. S \in SUBSET Nat /\ S # {}
  BY <1>1, <1>3
<1>5. PICK x \in S : \A y \in S : x <= y
  BY <1>4, Least
<1>6. \E k \in Uncommitted : Oldest(k)
  BY <1>5
<1>7. b \in Uncommitted
  BY <1>6
<1>8. b \in Keys /\ b.kind = "invoke" /\ b \in DOMAIN ops
  BY <1>2, <1>3, <1>7
<1> HIDE DEF b
<1>9. CommitOf(b) \in Keys /\ CommitOf(b).kind = "commit"
  BY <1>8 DEF CommitOf, Keys, Kinds
<1> QED
  BY <1>1, <1>8, <1>9

LEMMA AssureBinding ==
  ASSUME DataOK, bindAssuranceGo # Unwanted
  PROVE  /\ bindAssuranceGo = AssureKey(journal.candidate) /\ journal.candidate # None
         /\ journal.contract /\ journal.complete
         /\ bindAssuranceGo \in Keys /\ bindAssuranceGo.kind = "assure"
<1>1. bindAssuranceGo = AssureKey(journal.candidate) /\ journal.candidate # None
      /\ journal.contract /\ journal.complete
  BY Fields DEF bindAssuranceGo, AssureKey
<1>2. AssureKey(journal.candidate) \in Keys
  BY Fields, KeyMade, Vocabulary DEF AssureKey
<1>3. AssureKey(journal.candidate).kind = "assure"
  BY KeyFields DEF AssureKey
<1> QED
  BY <1>1, <1>2, <1>3

LEMMA IntegrateBinding ==
  ASSUME DataOK, bindBaseIntegrate # Unwanted
  PROVE  /\ journal.candidate # None
         /\ journal.assurance.commit = journal.candidate /\ journal.assurance.verdict = "passed"
         /\ bindBaseIntegrate \in Keys /\ bindBaseIntegrate.kind = "integrate"
<1>1. /\ journal.candidate # None
      /\ journal.assurance.commit = journal.candidate /\ journal.assurance.verdict = "passed"
  BY DEF bindBaseIntegrate
<1>2. PICK mark \in Marks : bindBaseIntegrate = Key("integrate", journal.candidate, mark)
  BY <1>1, Vocabulary DEF bindBaseIntegrate
<1>3. bindBaseIntegrate \in Keys
  BY <1>2, Fields, KeyMade, Vocabulary
<1>4. bindBaseIntegrate.kind = "integrate"
  BY <1>2, KeyFields
<1> QED
  BY <1>1, <1>3, <1>4

LEMMA AuthorityBinding ==
  ASSUME DataOK, OpsOK, bindAuthorityEvaluate # Unwanted
  PROVE  /\ bindBaseIntegrate # Unwanted
         /\ bindAuthorityEvaluate =
              Key("authority", journal.candidate,
                  IF journal.candidate \in journal.approvals THEN "answered" ELSE "asked")
         /\ bindAuthorityEvaluate \in Keys /\ bindAuthorityEvaluate.kind = "authority"
         /\ bindAuthorityEvaluate.rev = journal.candidate
<1>1. /\ satisfied(bindBaseIntegrate)
      /\ bindAuthorityEvaluate =
           Key("authority", journal.candidate,
               IF journal.candidate \in journal.approvals THEN "answered" ELSE "asked")
  BY DEF bindAuthorityEvaluate
<1>2. bindBaseIntegrate # Unwanted
  BY <1>1, NeverUnwanted
<1>3. bindAuthorityEvaluate \in Keys
  BY <1>1, Fields, KeyMade, Vocabulary
<1>4. bindAuthorityEvaluate.kind = "authority" /\ bindAuthorityEvaluate.rev = journal.candidate
  BY <1>1, KeyFields
<1> QED
  BY <1>1, <1>2, <1>3, <1>4

LEMMA PushBinding ==
  ASSUME DataOK, OpsOK, bindCandidatePush # Unwanted
  PROVE  /\ bindAuthorityEvaluate # Unwanted /\ satisfied(bindAuthorityEvaluate)
         /\ journal.decision.status = "authorized"
         /\ bindCandidatePush \in Keys /\ bindCandidatePush.kind = "push"
         /\ bindCandidatePush.rev = journal.candidate
<1>1. /\ journal.decision.status = "authorized" /\ satisfied(bindAuthorityEvaluate)
      /\ bindCandidatePush = Key("push", journal.candidate, "")
  BY DEF bindCandidatePush, authorizedForPublication
<1>2. bindAuthorityEvaluate # Unwanted
  BY <1>1, NeverUnwanted
<1>3. bindCandidatePush \in Keys
  BY <1>1, Fields, KeyMade, Vocabulary
<1>4. bindCandidatePush.kind = "push"
  BY <1>1, KeyFields
<1>5. bindCandidatePush.rev = journal.candidate
  BY <1>1 DEF Key
<1> QED
  BY <1>1, <1>2, <1>3, <1>4, <1>5

LEMMA PullRequestBindings ==
  ASSUME DataOK
  PROVE  /\ \/ bindPullRequestCreate = Unwanted
            \/ bindPullRequestCreate \in Keys /\ bindPullRequestCreate.kind = "create_pr"
         /\ \/ bindPullRequestUpdate = Unwanted
            \/ bindPullRequestUpdate \in Keys /\ bindPullRequestUpdate.kind = "update_pr"
<1>1. \/ bindPullRequestCreate = Unwanted
      \/ bindPullRequestCreate \in Keys /\ bindPullRequestCreate.kind = "create_pr"
  <2>1. Key("create_pr", None, "") \in Keys
    BY KeyMade, Vocabulary
  <2>2. Key("create_pr", None, "").kind = "create_pr"
    BY KeyFields
  <2> QED
    BY <2>1, <2>2 DEF bindPullRequestCreate
<1>2. \/ bindPullRequestUpdate = Unwanted
      \/ bindPullRequestUpdate \in Keys /\ bindPullRequestUpdate.kind = "update_pr"
  <2>1. Key("update_pr", journal.candidate, "") \in Keys
    BY Fields, KeyMade, Vocabulary
  <2>2. Key("update_pr", journal.candidate, "").kind = "update_pr"
    BY KeyFields
  <2> QED
    BY <2>1, <2>2 DEF bindPullRequestUpdate
<1> QED
  BY <1>1, <1>2

LEMMA Choosing ==
  ASSUME NEW k, NEW later
  PROVE  \/ Sooner(k, later) = k /\ k # Unwanted /\ ~satisfied(k)
         \/ Sooner(k, later) = later /\ (k = Unwanted \/ satisfied(k))
  BY DEF Sooner

(* The operation of a pass, and what its being the first one tells. *)
LEMMA PlanMade ==
  ASSUME DataOK, OpsOK, Works(plan)
  PROVE  /\ plan \in Keys /\ ~satisfied(plan)
         /\ plan.kind = "invoke" => satisfied(Key("create", None, ""))
         /\ plan.kind = "commit" => \E k \in DOMAIN ops : k.kind = "invoke"
         /\ plan.kind = "assure" =>
              plan = AssureKey(journal.candidate) /\ journal.candidate # None
              /\ journal.contract /\ journal.complete
         /\ plan.kind = "integrate" => journal.candidate # None
         /\ plan.kind = "authority" =>
              /\ journal.candidate # None
              /\ plan = Key("authority", journal.candidate,
                            IF journal.candidate \in journal.approvals THEN "answered" ELSE "asked")
         /\ plan.kind = "push" =>
              /\ plan.rev = journal.candidate /\ bindCandidatePush # Unwanted
              /\ bindAssuranceGo = Unwanted \/ satisfied(bindAssuranceGo)
<1> DEFINE p12 == Sooner(bindPullRequestUpdate, Unwanted)
           p11 == Sooner(bindPullRequestCreate, p12)
           p10 == Sooner(bindCandidatePush, p11)
           p9 == Sooner(bindAuthorityEvaluate, p10)
           p8 == Sooner(bindBaseIntegrate, p9)
           p7 == Sooner(bindAssuranceGo, p8)
           p6 == Sooner(bindCandidateCommit, p7)
           p5 == Sooner(bindExecutionInvoke, p6)
           p4 == Sooner(bindCandidateCreate, p5)
           p3 == Sooner(bindContractCompile, p4)
           p2 == Sooner(bindGitHubObserve, p3)
           Good(p) == /\ p \in Keys /\ ~satisfied(p)
                      /\ p.kind = "invoke" => satisfied(Key("create", None, ""))
                      /\ p.kind = "commit" => \E k \in DOMAIN ops : k.kind = "invoke"
                      /\ p.kind = "assure" =>
                           p = AssureKey(journal.candidate) /\ journal.candidate # None
                           /\ journal.contract /\ journal.complete
                      /\ p.kind = "integrate" => journal.candidate # None
                      /\ p.kind = "authority" =>
                           /\ journal.candidate # None
                           /\ p = Key("authority", journal.candidate,
                                      IF journal.candidate \in journal.approvals
                                      THEN "answered" ELSE "asked")
           Fine(p) == p = Unwanted \/ (Good(p) /\ p.kind # "push")
           Push(p) == /\ Good(p) /\ p.rev = journal.candidate /\ bindCandidatePush # Unwanted
           Tail9(p) == Fine(p) \/ Push(p)
           Tail7(p) == Fine(p) \/ (Push(p) /\ (bindAssuranceGo = Unwanted \/ satisfied(bindAssuranceGo)))
           Either(p, k, later) == \/ p = k /\ k # Unwanted /\ ~satisfied(k)
                                  \/ p = later /\ (k = Unwanted \/ satisfied(k))
<1> HIDE DEF p2, p3, p4, p5, p6, p7, p8, p9, p10, p11, p12
<1>c12. Either(p12, bindPullRequestUpdate, Unwanted)
  BY Choosing DEF p12
<1>c11. Either(p11, bindPullRequestCreate, p12)
  BY Choosing DEF p11
<1>c10. Either(p10, bindCandidatePush, p11)
  BY Choosing DEF p10
<1>c9. Either(p9, bindAuthorityEvaluate, p10)
  BY Choosing DEF p9
<1>c8. Either(p8, bindBaseIntegrate, p9)
  BY Choosing DEF p8
<1>c7. Either(p7, bindAssuranceGo, p8)
  BY Choosing DEF p7
<1>c6. Either(p6, bindCandidateCommit, p7)
  BY Choosing DEF p6
<1>c5. Either(p5, bindExecutionInvoke, p6)
  BY Choosing DEF p5
<1>c4. Either(p4, bindCandidateCreate, p5)
  BY Choosing DEF p4
<1>c3. Either(p3, bindContractCompile, p4)
  BY Choosing DEF p3
<1>c2. Either(p2, bindGitHubObserve, p3)
  BY Choosing DEF p2
<1>p. plan = bindSourceObserve \/ plan = p2
  BY Choosing DEF plan, p2, p3, p4, p5, p6, p7, p8, p9, p10, p11, p12
<1>1. Fine(p12)
  BY <1>c12, PullRequestBindings
<1>2. Fine(p11)
  BY <1>1, <1>c11, PullRequestBindings
<1>3. Tail9(p10)
  <2>1. CASE p10 = p11
    BY <1>2, <2>1
  <2>2. CASE p10 = bindCandidatePush /\ bindCandidatePush # Unwanted /\ ~satisfied(bindCandidatePush)
    BY <2>2, PushBinding
  <2> QED
    BY <2>1, <2>2, <1>c10
<1>4. Tail9(p9)
  <2>1. CASE p9 = p10
    BY <1>3, <2>1
  <2>2. CASE /\ p9 = bindAuthorityEvaluate /\ bindAuthorityEvaluate # Unwanted
             /\ ~satisfied(bindAuthorityEvaluate)
    BY <2>2, AuthorityBinding, IntegrateBinding
  <2> QED
    BY <2>1, <2>2, <1>c9
<1>5. Tail9(p8)
  <2>1. CASE p8 = p9
    BY <1>4, <2>1
  <2>2. CASE p8 = bindBaseIntegrate /\ bindBaseIntegrate # Unwanted /\ ~satisfied(bindBaseIntegrate)
    BY <2>2, IntegrateBinding
  <2> QED
    BY <2>1, <2>2, <1>c8
<1>6. Tail7(p7)
  <2>1. CASE p7 = p8 /\ (bindAssuranceGo = Unwanted \/ satisfied(bindAssuranceGo))
    BY <1>5, <2>1
  <2>2. CASE p7 = bindAssuranceGo /\ bindAssuranceGo # Unwanted /\ ~satisfied(bindAssuranceGo)
    BY <2>2, AssureBinding
  <2> QED
    BY <2>1, <2>2, <1>c7
<1>7. Tail7(p6)
  <2>1. CASE p6 = p7
    BY <1>6, <2>1
  <2>2. CASE p6 = bindCandidateCommit /\ bindCandidateCommit # Unwanted /\ ~satisfied(bindCandidateCommit)
    BY <2>2, CommitBinding
  <2> QED
    BY <2>1, <2>2, <1>c6
<1>8. Tail7(p5)
  <2>1. CASE p5 = p6
    BY <1>7, <2>1
  <2>2. CASE p5 = bindExecutionInvoke /\ bindExecutionInvoke # Unwanted /\ ~satisfied(bindExecutionInvoke)
    BY <2>2, EarlyBindings
  <2> QED
    BY <2>1, <2>2, <1>c5
<1>9. Tail7(p4)
  <2>1. CASE p4 = p5
    BY <1>8, <2>1
  <2>2. CASE p4 = bindCandidateCreate /\ bindCandidateCreate # Unwanted /\ ~satisfied(bindCandidateCreate)
    BY <2>2, EarlyBindings
  <2> QED
    BY <2>1, <2>2, <1>c4
<1>10. Tail7(p3)
  <2>1. CASE p3 = p4
    BY <1>9, <2>1
  <2>2. CASE p3 = bindContractCompile /\ bindContractCompile # Unwanted /\ ~satisfied(bindContractCompile)
    BY <2>2, EarlyBindings
  <2> QED
    BY <2>1, <2>2, <1>c3
<1>12. p2 = p3 \/ (p2 = bindGitHubObserve /\ bindGitHubObserve # Unwanted)
  BY <1>c2
<1>13. plan = p3
  BY <1>p, <1>12, EarlyBindings DEF Works, Observations
<1> QED
  BY <1>10, <1>13 DEF Works

-----------------------------------------------------------------------------
(* What a step leaves alone.                                                *)

(* For what is not an observation, satisfied is a matter of the operations  *)
(* alone.                                                                   *)
LEMMA DoneSatisfies ==
  ASSUME NEW k, k.kind \notin Observations
  PROVE  satisfied(k) <=> Done(k)
  BY DEF satisfied, Done

LEMMA Numbered ==
  ASSUME DataOK
  PROVE  /\ Len(commits) \in Nat /\ Made \subseteq Nat
         /\ \A x \in Heads : x # None <=> x \in Made
         /\ \A x \in Tips : x # None /\ x # Foreign <=> x \in Made
         /\ Heads \subseteq Tips
         /\ \A x \in Made : commits[x] \in Commits
  BY Names DEF DataOK, Heads, Tips, Made

(* Commits are only ever added, and a verdict on one whose assurance        *)
(* succeeded stays.                                                         *)
Kept ==
  /\ commits' \in Seq(Commits) /\ Len(commits) <= Len(commits') /\ Len(commits') <= MaxRevision
  /\ \A rev \in Made : Done(AssureKey(rev)) => commits'[rev].passed = commits[rev].passed

LEMMA Grown ==
  ASSUME DataOK, commits' \in Seq(Commits), Len(commits) <= Len(commits')
  PROVE  /\ Made \subseteq Made' /\ Heads \subseteq Heads' /\ Tips \subseteq Tips'
         /\ Keys \subseteq Keys' /\ OpType \subseteq OpType' /\ Harmless \subseteq Harmless'
         /\ journal \in JournalOver(Heads', Tips')
<1>1. Made \subseteq Made' /\ Heads \subseteq Heads' /\ Tips \subseteq Tips'
  BY DEF DataOK, Made, Heads, Tips
<1>2. Keys \subseteq Keys'
  BY <1>1 DEF Keys
<1>3. OpType \subseteq OpType'
  BY <1>1, OpWider DEF OpType
<1>4. Harmless \subseteq Harmless'
  BY <1>1 DEF Harmless
<1>5. journal \in JournalOver(Heads', Tips')
  BY <1>1, JournalWider DEF DataOK
<1> QED
  BY <1>1, <1>2, <1>3, <1>4, <1>5

SameCore ==
  /\ journal.contract => journal'.contract
  /\ journal'.candidate = journal.candidate /\ (journal.complete => journal'.complete)
  /\ journal'.assurance = journal.assurance /\ journal'.decision.status = journal.decision.status
  /\ journal.approvals \subseteq journal'.approvals

WorkspaceKept ==
  /\ workspace'.head = workspace.head \/ workspace'.head = NextRevision
  /\ workspace.work # "none" => workspace'.work # "none"

LEMMA Steady ==
  ASSUME PipelineInv, SameCore, Kept, WorkspaceKept, ops' = ops,
         \/ forge'.branch = forge.branch \/ forge'.branch = Foreign
         \/ forge'.branch \in Made /\ Proved(forge'.branch)
  PROVE  OpsOK' /\ WorkspaceOK' /\ JudgedOK' /\ DecidedOK' /\ BranchOK'
<1> USE DEF PipelineInv
<1>0. /\ Made \subseteq Made' /\ Keys \subseteq Keys' /\ OpType \subseteq OpType'
      /\ Foreign \notin Made' /\ None \notin Made'
  BY Grown, Names DEF Kept, Made
<1>1. OpsOK'
  BY <1>0 DEF OpsOK, attemptsFor
<1>2. WorkspaceOK'
  <2>1. journal.candidate # None =>
          journal.candidate \in Nat /\ journal.candidate <= Len(commits) /\ Len(commits) \in Nat
    BY Numbered, Fields DEF Made
  <2>2. journal.candidate # None => NextRevision # None /\ journal.candidate <= NextRevision
    BY <2>1, Names DEF NextRevision
  <2>3. journal.candidate # None =>
          workspace'.head # None /\ journal.candidate <= workspace'.head
    BY <2>2 DEF WorkspaceOK, WorkspaceKept
  <2> QED
    BY <2>3 DEF WorkspaceOK, SameCore, WorkspaceKept
<1>3. JudgedOK'
  <2>1. journal.assurance.commit # None => journal.assurance.commit \in Made
    BY Numbered, Fields
  <2>2. journal'.assurance.commit = journal.assurance.commit
    BY DEF SameCore
  <2>3. journal'.assurance.verdict = journal.assurance.verdict
    BY DEF SameCore
  <2>4. Done(AssureKey(journal.assurance.commit))' <=> Done(AssureKey(journal.assurance.commit))
    BY <2>2 DEF Done, AssureKey, Key
  <2> QED
    BY <2>1, <2>2, <2>3, <2>4 DEF JudgedOK, SameCore, Kept
<1>4. DecidedOK'
  BY DEF DecidedOK, SameCore, Done, Key
<1>5. BranchOK'
  <2>1. SUFFICES ASSUME forge'.branch \in Made'
                 PROVE  BranchOK'
    BY DEF BranchOK
  <2>2. forge'.branch \in Made /\ Proved(forge'.branch)
    BY <1>0, <2>1, Numbered DEF DataOK, BranchOK
  <2> QED
    BY <2>2 DEF BranchOK, Proved, SameCore, Kept, Done, AssureKey, Key
<1> QED
  BY <1>1, <1>2, <1>3, <1>4, <1>5

-----------------------------------------------------------------------------
(* What a handler returns.                                                  *)

LEMMA DoingFields ==
  /\ "pc" \in DOMAIN Idle /\ "key" \in DOMAIN Idle /\ "events" \in DOMAIN Idle /\ "after" \in DOMAIN Idle
  /\ "remote" \in DOMAIN Idle /\ "current" \in DOMAIN Idle /\ "answered" \in DOMAIN Idle
  /\ "settles" \in DOMAIN Idle /\ "failure" \in DOMAIN Idle /\ "repeats" \in DOMAIN Idle
  BY DEF Idle

LEMMA Produced ==
  ASSUME DoingType, NEW events, NEW after, NEW settles, Produce(events, after, settles)
  PROVE  /\ doing'.pc = "append" /\ doing'.events = events /\ doing'.after = after
         /\ doing'.settles = settles /\ doing'.key = doing.key /\ doing'.remote = doing.remote
         /\ DOMAIN doing' = DOMAIN Idle
  BY DoingFields DEF DoingType, Produce

LEMMA HeldOp ==
  ASSUME OpsOK, doing.key \in DOMAIN ops
  PROVE  /\ Op(doing.key) = ops[doing.key] /\ ops[doing.key] \in OpType
         /\ ops[doing.key].attempt <= attemptsFor(doing.key.kind)
         /\ doing.key \in Keys
         /\ attemptsFor(doing.key.kind) \in Nat /\ 0 < attemptsFor(doing.key.kind)
  BY Names DEF OpsOK, Op, attemptsFor

LEMMA Ends1 ==
  ASSUME OpsOK, doing.key \in DOMAIN ops
  PROVE  /\ Succeeded \in OpType /\ Succeeded.attempt <= attemptsFor(doing.key.kind)
         /\ Succeeded.state = "succeeded"
         /\ Failed \in OpType /\ Failed.attempt <= attemptsFor(doing.key.kind)
         /\ Failed.state = "failed"
<1>1. ops[doing.key].at \in Nat /\ None \in Heads
  BY HeldOp DEF OpType, OpOver, Heads
<1>2. Succeeded \in OpType /\ Succeeded.attempt = 0 /\ Succeeded.state = "succeeded"
  BY <1>1, HeldOp DEF Succeeded, Fresh, OpType, OpOver
<1>3. /\ Failed \in OpType /\ Failed.attempt = ops[doing.key].attempt /\ Failed.state = "failed"
  BY HeldOp DEF Failed, OpType, OpOver
<1> QED
  BY <1>2, <1>3, HeldOp

(* The end of a handler: what it returned is well-formed, and a verdict or  *)
(* a decision that counts as made is among its events.                      *)
LEMMA Handled ==
  ASSUME PipelineInv, Kept, journal' = journal, ops' = ops,
         doing.pc \in {"handle", "push", "open"},
         NEW events, NEW after \in OpType', NEW settles \in {"none", "execution_checkpointed", "operation_unavailable"},
         Produce(events, after, settles), EventsOK',
         after.attempt <= attemptsFor(doing.key.kind),
         doing.key.kind = "create" /\ after.state = "succeeded" => workspace'.work # "none",
         doing.key.kind \in {"assure", "authority"} => events # <<>> \/ after.state # "succeeded"
  PROVE  DoingType' /\ HandOK' /\ EndOK'
<1> USE DEF PipelineInv
<1>1. /\ doing'.pc = "append" /\ doing'.events = events /\ doing'.after = after
      /\ doing'.settles = settles /\ doing'.key = doing.key /\ doing'.remote = doing.remote
      /\ DOMAIN doing' = DOMAIN Idle
  BY Produced
<1>2. Tips \subseteq Tips'
  BY Grown DEF Kept
<1>3. /\ doing.key \in DOMAIN ops /\ ops[doing.key].state # "succeeded"
      /\ doing.key.kind \in {"assure", "authority", "push"} => OfCandidate(doing.key)
      /\ doing.key.kind = "assure" => doing.key.mark = "" /\ journal.contract /\ journal.complete
      /\ doing.key.kind = "authority" => doing.key.mark = "asked" \/ doing.key.rev \in journal.approvals
  BY DEF HandOK
<1>4. DOMAIN Idle' = DOMAIN Idle
  BY DEF Idle, Unwanted, Key, Fresh, NoFailure
<1>5. DoingType'
  BY <1>1, <1>2, <1>4 DEF DoingType
<1>6. HandOK'
  BY <1>1 DEF HandOK
<1>7. attemptsFor(doing.key.kind)' = attemptsFor(doing.key.kind)
  BY <1>1 DEF attemptsFor
<1>8. EndOK'
  BY <1>1, <1>3, <1>7 DEF EndOK, OfCandidate
<1> QED
  BY <1>5, <1>6, <1>8

ForgeOver(tips, made) ==
  [base : Bases, branch : tips, own : Nat, theirs : {0, 1}, merged : BOOLEAN, failing : SUBSET made]

LEMMA ForgeWider ==
  ASSUME DataOK, commits' \in Seq(Commits), Len(commits) <= Len(commits')
  PROVE  forge \in ForgeOver(Tips', Made') /\ workspace \in [head : Heads', work : WorkStates]
<1>1. Made \subseteq Made' /\ Heads \subseteq Heads' /\ Tips \subseteq Tips'
  BY Grown
<1> QED
  BY <1>1 DEF DataOK, ForgeOver

(* A handler that moves the branch at most to what is proved, and changes   *)
(* no verdict that stands.                                                  *)
LEMMA HandlerKeeps ==
  ASSUME PipelineInv, Kept, journal' = journal, seen' = seen, ops' = ops,
         doing.pc \in {"handle", "push", "open"},
         NEW events, NEW after \in OpType', NEW settles \in {"none", "execution_checkpointed", "operation_unavailable"},
         Produce(events, after, settles), EventsOK',
         after.attempt <= attemptsFor(doing.key.kind),
         doing.key.kind = "create" /\ after.state = "succeeded" => workspace'.work # "none",
         doing.key.kind \in {"assure", "authority"} => events # <<>> \/ after.state # "succeeded",
         WorkspaceKept, workspace' \in [head : Heads', work : WorkStates],
         forge' \in ForgeOver(Tips', Made'),
         forge'.branch = forge.branch \/ (forge'.branch \in Made /\ Proved(forge'.branch)),
         faults' \in 0 .. MaxFaults
  PROVE  PipelineInv'
<1>1. DoingType' /\ HandOK' /\ EndOK'
  BY Handled
<1>2. SameCore
  BY DEF SameCore
<1>3. OpsOK' /\ WorkspaceOK' /\ JudgedOK' /\ DecidedOK' /\ BranchOK'
  BY <1>2, Steady
<1>4. journal \in JournalOver(Heads', Tips')
  BY Grown DEF Kept, PipelineInv
<1>5. DataOK'
  BY <1>4 DEF DataOK, ForgeOver, Kept, PipelineInv
<1> QED
  BY <1>1, <1>3, <1>5 DEF PipelineInv

LEMMA HarmlessMade ==
  ASSUME NEW type \in {"contract_compiled", "candidate_changed", "execution_completed",
                       "external_changed", "pr_observed", "ci_observed"},
         NEW rev \in Tips, NEW what \in Details
  PROVE  Event(type, rev, what) \in Harmless
  BY DEF Event, Harmless

LEMMA HarmlessEvents ==
  ASSUME DataOK, doing'.events \in Seq(Harmless),
         doing'.key.kind \in {"assure", "authority"} => doing'.events = <<>>,
         commits' \in Seq(Commits), Len(commits) <= Len(commits')
  PROVE  EventsOK'
<1>1. Harmless \subseteq Harmless'
  BY Grown
<1>2. doing'.events \in Seq(Harmless')
  BY <1>1
<1> QED
  BY <1>2 DEF EventsOK

(* Nothing but the driver's record, the workspace's work and the forge      *)
(* besides its branch.                                                      *)
LEMMA QuietHandler ==
  ASSUME PipelineInv, UNCHANGED <<journal, seen, ops, commits>>,
         doing.pc \in {"handle", "push", "open"},
         NEW events \in Seq(Harmless), NEW after \in {Succeeded, Failed, [Failed EXCEPT !.refused = TRUE]},
         Produce(events, after, "none"),
         after = Succeeded => doing.key.kind \notin {"create", "assure", "authority"},
         doing.key.kind \in {"assure", "authority"} => events = <<>>,
         UNCHANGED workspace,
         forge' \in ForgeOver(Tips, Made), forge'.branch = forge.branch,
         faults' \in 0 .. MaxFaults
  PROVE  PipelineInv'
<1> USE DEF PipelineInv
<1>1. Kept
  BY DEF Kept, DataOK
<1>2. doing.key \in DOMAIN ops
  BY DEF HandOK
<1>3. /\ after \in OpType /\ after.attempt <= attemptsFor(doing.key.kind)
      /\ after # Succeeded => after.state # "succeeded"
  <2>1. CASE after = Succeeded
    BY <1>2, <2>1, Ends1
  <2>2. CASE after = Failed
    BY <1>2, <2>2, Ends1
  <2>3. CASE after = [Failed EXCEPT !.refused = TRUE]
    <3>1. /\ Failed \in OpType /\ Failed.attempt <= attemptsFor(doing.key.kind)
          /\ Failed.state = "failed"
      BY <1>2, Ends1
    <3> QED
      BY <2>3, <3>1 DEF OpType, OpOver
  <2> QED
    BY <2>1, <2>2, <2>3
<1>4. doing'.events = events /\ doing'.key = doing.key
  BY Produced
<1>5. EventsOK'
  BY <1>1, <1>4, HarmlessEvents DEF Kept
<1>6. OpType' = OpType /\ Heads' = Heads /\ Tips' = Tips /\ Made' = Made
  BY DEF OpType, Heads, Tips, Made
<1>7. WorkspaceKept
  BY DEF WorkspaceKept
<1>8. workspace' \in [head : Heads', work : WorkStates]
  BY <1>6 DEF DataOK
<1>9. forge' \in ForgeOver(Tips', Made')
  BY <1>6
<1> QED
  BY <1>1, <1>3, <1>5, <1>6, <1>7, <1>8, <1>9, HandlerKeeps

-----------------------------------------------------------------------------
(* The handlers.                                                            *)

LEMMA Faulted ==
  ASSUME DataOK, Fault
  PROVE  faults' \in 0 .. MaxFaults
  BY Names DEF DataOK, Fault

LEMMA SameForge ==
  ASSUME DataOK
  PROVE  forge \in ForgeOver(Tips, Made) /\ None \in Tips /\ forge.branch \in Tips
  BY DEF DataOK, ForgeOver, Tips

LEMMA HarmlessOne ==
  ASSUME NEW e \in Harmless
  PROVE  <<e>> \in Seq(Harmless)
  OBVIOUS

LEMMA HarmlessTwo ==
  ASSUME NEW e \in Harmless, NEW f \in Harmless
  PROVE  <<e, f>> \in Seq(Harmless)
  OBVIOUS

LEMMA KeepsCompile ==
  ASSUME PipelineInv, compileContract
  PROVE  PipelineInv'
<1> USE DEF PipelineInv
<1>1. Event("contract_compiled", None, "") \in Harmless
  BY SameForge, HarmlessMade DEF Details
<1>2. <<Event("contract_compiled", None, "")>> \in Seq(Harmless)
  BY <1>1, HarmlessOne
<1>3. faults' \in 0 .. MaxFaults
  BY DEF compileContract, DataOK
<1> QED
  BY <1>2, <1>3, QuietHandler, SameForge DEF compileContract, Handles

LEMMA Observed ==
  ASSUME DataOK
  PROVE  <<prObservation>> \in Seq(Harmless)
<1>1. prObservation \in Harmless
  BY SameForge, HarmlessMade DEF prObservation, Details
<1> QED
  BY <1>1, HarmlessOne

LEMMA EndsApart ==
  ASSUME OpsOK, doing.key \in DOMAIN ops
  PROVE  Succeeded # Failed
  BY Ends1

LEMMA KeepsCreatePullRequest ==
  ASSUME PipelineInv, createPullRequest
  PROVE  PipelineInv'
<1> USE DEF PipelineInv
<1>1. /\ UNCHANGED <<journal, seen, ops, commits, workspace>>
      /\ doing.pc = "open" /\ doing.key.kind = "create_pr" /\ doing.key \in DOMAIN ops
  BY DEF createPullRequest, HandOK
<1>2. forge' \in ForgeOver(Tips, Made) /\ forge'.branch = forge.branch
  BY DEF createPullRequest, DataOK, ForgeOver
<1>3. faults' \in 0 .. MaxFaults /\ <<>> \in Seq(Harmless)
  BY Faulted DEF createPullRequest, DataOK
<1>4. CASE Produce(<<prObservation>>, Succeeded, "none")
  BY <1>1, <1>2, <1>3, <1>4, Observed, QuietHandler
<1>5. CASE Produce(<<>>, Failed, "none")
  BY <1>1, <1>2, <1>3, <1>5, EndsApart, QuietHandler
<1> QED
  BY <1>4, <1>5 DEF createPullRequest

LEMMA KeepsUpdatePullRequest ==
  ASSUME PipelineInv, updatePullRequest
  PROVE  PipelineInv'
<1> USE DEF PipelineInv
<1>1. faults' \in 0 .. MaxFaults
  BY DEF updatePullRequest, DataOK
<1> QED
  BY <1>1, SameForge, Observed, QuietHandler DEF updatePullRequest, Handles

LEMMA KeepsHandlerFails ==
  ASSUME PipelineInv, HandlerFails
  PROVE  PipelineInv'
<1> USE DEF PipelineInv
<1>1. faults' \in 0 .. MaxFaults
  BY Faulted DEF HandlerFails, DataOK
<1>2. <<>> \in Seq(Harmless)
  OBVIOUS
<1>3. Succeeded # Failed
  BY EndsApart DEF HandOK, HandlerFails
<1> QED
  BY <1>1, <1>2, <1>3, SameForge, QuietHandler DEF HandlerFails, Handles

LEMMA KeepsReadRemote ==
  ASSUME PipelineInv, readRemote
  PROVE  PipelineInv'
<1> USE DEF PipelineInv
<1>1. /\ doing'.pc = "push" /\ doing'.remote = forge.branch /\ doing'.key = doing.key
      /\ doing'.answered = doing.answered /\ doing'.settles = doing.settles
      /\ DOMAIN doing' = DOMAIN Idle
  BY DoingFields DEF readRemote, DoingType
<1>2. Kept /\ SameCore /\ WorkspaceKept /\ ops' = ops /\ forge' = forge
  BY DEF readRemote, Kept, SameCore, WorkspaceKept, DataOK
<1>3. OpsOK' /\ WorkspaceOK' /\ JudgedOK' /\ DecidedOK' /\ BranchOK'
  BY <1>2, Steady
<1>4. Heads' = Heads /\ Tips' = Tips /\ Made' = Made
  BY DEF readRemote, Heads, Tips, Made
<1>5. DataOK'
  BY <1>4 DEF readRemote, DataOK
<1>6. DOMAIN Idle' = DOMAIN Idle
  BY DEF Idle, Unwanted, Key, Fresh, NoFailure
<1>7. DoingType'
  BY <1>1, <1>4, <1>6, SameForge DEF DoingType
<1>8. EndOK'
  BY <1>1 DEF EndOK
<1>9. HandOK'
  BY <1>1 DEF readRemote, Handles, HandOK, OfCandidate, Proved, Done, AssureKey, Key
<1> QED
  BY <1>3, <1>5, <1>7, <1>8, <1>9

LEMMA KeepsCreateCandidate ==
  ASSUME PipelineInv, createCandidate
  PROVE  PipelineInv'
<1> USE DEF PipelineInv
<1>1. Kept
  BY DEF Kept, DataOK, createCandidate
<1>2. doing.key \in DOMAIN ops /\ doing.pc = "handle" /\ doing.key.kind = "create"
  BY DEF HandOK, createCandidate, Handles
<1>3. Succeeded \in OpType' /\ Succeeded.attempt <= attemptsFor(doing.key.kind)
  BY <1>1, <1>2, Ends1, Grown DEF Kept
<1>4. /\ workspace' \in [head : Heads, work : WorkStates] /\ workspace'.work # "none"
      /\ workspace'.head = workspace.head
  BY DEF createCandidate, DataOK, WorkStates
<1>5. WorkspaceKept
  BY <1>4 DEF WorkspaceKept
<1>6. workspace' \in [head : Heads', work : WorkStates]
  BY <1>1, <1>4, Grown DEF Kept
<1>7. Produce(<<>>, Succeeded, "none") /\ journal' = journal /\ seen' = seen /\ ops' = ops /\ forge' = forge
  BY DEF createCandidate
<1>8. EventsOK'
  <2>0. doing'.events = <<>> /\ doing'.key = doing.key
    BY <1>7, Produced
  <2>1. doing'.events \in Seq(Harmless)
    BY <2>0
  <2> QED
    BY <1>1, <2>0, <2>1, HarmlessEvents DEF Kept
<1>9. faults' \in 0 .. MaxFaults
  BY DEF createCandidate, DataOK
<1>10. forge' \in ForgeOver(Tips', Made') /\ forge'.branch = forge.branch
  BY <1>1, <1>7, ForgeWider DEF Kept
<1> QED
  BY <1>1, <1>2, <1>3, <1>4, <1>5, <1>6, <1>7, <1>8, <1>9, <1>10, HandlerKeeps

LEMMA KeepsInvoke ==
  ASSUME PipelineInv, invokeExecution
  PROVE  PipelineInv'
<1> USE DEF PipelineInv
<1> DEFINE e1 == Event("candidate_changed", None, "")
           e2 == Event("execution_completed", None, "")
<1>1. /\ doing.key \in DOMAIN ops /\ doing.pc = "handle" /\ doing.key.kind = "invoke"
      /\ journal' = journal /\ seen' = seen /\ ops' = ops /\ forge' = forge
      /\ workspace.work # "none" /\ workspace.head = journal.candidate
  BY DEF HandOK, invokeExecution, Handles, workspaceSound
<1>2. e1 \in Harmless /\ e2 \in Harmless
  BY SameForge, HarmlessMade DEF Details
<1>3. \E work \in {"clean", "partial", "whole"} : workspace' = [workspace EXCEPT !.work = work]
  BY DEF invokeExecution
<1>4. /\ workspace' \in [head : Heads, work : WorkStates] /\ workspace'.work # "none"
      /\ workspace'.head = workspace.head
  BY <1>3 DEF DataOK, WorkStates
<1>5. WorkspaceKept
  BY <1>4 DEF WorkspaceKept
<1>6. commits' = commits \/ (journal.candidate # None /\ commits' = [commits EXCEPT ![journal.candidate].whole = TRUE])
  BY DEF invokeExecution
<1>7. Kept
  <2>1. CASE commits' = commits
    BY <2>1 DEF Kept, DataOK
  <2>2. CASE journal.candidate # None /\ commits' = [commits EXCEPT ![journal.candidate].whole = TRUE]
    <3>1. journal.candidate \in Made
      BY <2>2, Numbered, Fields
    <3>2. commits[journal.candidate] \in Commits
      BY <3>1, Numbered
    <3> DEFINE c == [commits[journal.candidate] EXCEPT !.whole = TRUE]
    <3>3. c \in Commits /\ c.passed = commits[journal.candidate].passed
      BY <3>2 DEF Commits
    <3>4. commits' = [commits EXCEPT ![journal.candidate] = c]
      BY <2>2
    <3> HIDE DEF c
    <3>5. commits' \in Seq(Commits) /\ Len(commits') = Len(commits)
      BY <3>1, <3>3, <3>4 DEF DataOK, Made
    <3>6. \A rev \in Made : commits'[rev].passed = commits[rev].passed
      BY <3>1, <3>3, <3>4 DEF DataOK, Made
    <3> QED
      BY <3>5, <3>6 DEF Kept, DataOK
  <2> QED
    BY <1>6, <2>1, <2>2
<1>8. workspace' \in [head : Heads', work : WorkStates]
  BY <1>7, <1>4, Grown DEF Kept
<1>9. faults' \in 0 .. MaxFaults
  BY Faulted DEF invokeExecution, DataOK
<1>10. \E events \in {<<e1>>, <<e1, e2>>},
          after \in {Failed, [Succeeded EXCEPT !.mutated = TRUE], [Succeeded EXCEPT !.mutated = FALSE],
                     [Succeeded EXCEPT !.mutated = TRUE, !.checkpoint = TRUE]},
          settles \in {"none", "operation_unavailable"} : Produce(events, after, settles)
  BY DEF invokeExecution
<1>11. PICK events \in {<<e1>>, <<e1, e2>>},
            after \in {Failed, [Succeeded EXCEPT !.mutated = TRUE], [Succeeded EXCEPT !.mutated = FALSE],
                       [Succeeded EXCEPT !.mutated = TRUE, !.checkpoint = TRUE]},
            settles \in {"none", "operation_unavailable"} : Produce(events, after, settles)
  BY <1>10
<1>12. after \in OpType /\ after.attempt <= attemptsFor(doing.key.kind)
  <2>1. /\ Succeeded \in OpType /\ Succeeded.attempt <= attemptsFor(doing.key.kind)
        /\ Failed \in OpType /\ Failed.attempt <= attemptsFor(doing.key.kind)
    BY <1>1, Ends1
  <2>2. \A op \in OpType :
          /\ [op EXCEPT !.mutated = TRUE] \in OpType /\ [op EXCEPT !.mutated = TRUE].attempt = op.attempt
          /\ [op EXCEPT !.mutated = FALSE] \in OpType /\ [op EXCEPT !.mutated = FALSE].attempt = op.attempt
    BY DEF OpType, OpOver
  <2>3. \A op \in OpType :
          /\ [op EXCEPT !.mutated = TRUE, !.checkpoint = TRUE] \in OpType
          /\ [op EXCEPT !.mutated = TRUE, !.checkpoint = TRUE].attempt = op.attempt
    BY DEF OpType, OpOver
  <2>4. CASE after = Failed
    BY <2>1, <2>4
  <2>5. CASE after = [Succeeded EXCEPT !.mutated = TRUE]
    BY <2>1, <2>2, <2>5
  <2>6. CASE after = [Succeeded EXCEPT !.mutated = FALSE]
    BY <2>1, <2>2, <2>6
  <2>7. CASE after = [Succeeded EXCEPT !.mutated = TRUE, !.checkpoint = TRUE]
    BY <2>1, <2>3, <2>7
  <2> QED
    BY <2>4, <2>5, <2>6, <2>7
<1>13. after \in OpType'
  BY <1>7, <1>12, Grown DEF Kept
<1>14. EventsOK'
  <2>1. doing'.events = events /\ doing'.key = doing.key
    BY <1>11, Produced
  <2>2. doing'.events \in Seq(Harmless)
    BY <1>2, <1>11, <2>1, HarmlessOne, HarmlessTwo, Zenon
  <2> QED
    BY <1>1, <1>7, <2>1, <2>2, HarmlessEvents DEF Kept
<1>15. forge' \in ForgeOver(Tips', Made') /\ forge'.branch = forge.branch
  BY <1>1, <1>7, ForgeWider DEF Kept
<1>16. doing.key.kind \notin {"create", "assure", "authority"} /\ doing.pc \in {"handle", "push", "open"}
  BY <1>1
<1> HIDE DEF e1, e2
<1> QED
  BY <1>1, <1>5, <1>7, <1>8, <1>9, <1>11, <1>12, <1>13, <1>14, <1>15, <1>16, HandlerKeeps

LEMMA Commits1 ==
  ASSUME DataOK, Len(commits) < MaxRevision, NEW ancestors \in SUBSET Nat, NEW base \in BaseOrNone,
         NEW whole \in BOOLEAN, NewCommit(ancestors, base, whole)
  PROVE  /\ Kept /\ NextRevision \in Made' /\ NextRevision \in Heads' /\ NextRevision \in Tips'
         /\ journal.candidate # None => journal.candidate < NextRevision
<1> DEFINE c == [ancestors |-> ancestors, base |-> base, whole |-> whole, passed |-> FALSE]
<1>1. c \in Commits
  BY DEF Commits
<1>2. commits' = Append(commits, c)
  BY DEF NewCommit
<1> HIDE DEF c
<1>3. /\ commits' \in Seq(Commits) /\ Len(commits') = Len(commits) + 1
      /\ \A rev \in Made : commits'[rev] = commits[rev]
  BY <1>1, <1>2 DEF DataOK, Made
<1>4. Kept
  BY <1>3, Names DEF Kept, DataOK
<1>5. NextRevision \in Made'
  BY <1>3, Numbered DEF NextRevision, Made
<1>6. journal.candidate # None => journal.candidate < NextRevision
  <2>1. journal.candidate # None => journal.candidate \in Made
    BY Fields, Numbered
  <2> QED
    BY <2>1, Numbered DEF Made, NextRevision
<1> QED
  BY <1>4, <1>5, <1>6 DEF Heads, Tips

LEMMA LineTyped ==
  ASSUME DataOK, NEW head \in Heads
  PROVE  Line(head) \in SUBSET Nat
<1>1. CASE head = None
  BY <1>1 DEF Line
<1>2. CASE head # None
  <2>1. head \in Made /\ head \in Nat /\ commits[head] \in Commits
    BY <1>2, Numbered
  <2> QED
    BY <1>2, <2>1 DEF Line, Commits
<1> QED
  BY <1>1, <1>2

LEMMA BaseTyped ==
  ASSUME DataOK
  PROVE  /\ journal.pinned \in BaseOrNone /\ forge.base \in BaseOrNone
         /\ \A rev \in Made : commits[rev].base \in BaseOrNone /\ commits[rev].whole \in BOOLEAN
<1>1. \A rev \in Made : commits[rev].base \in BaseOrNone /\ commits[rev].whole \in BOOLEAN
  BY Numbered DEF Commits
<1> QED
  BY <1>1, Fields DEF DataOK, BaseOrNone

(* The event that moves the candidate to the workspace's head. *)
LEMMA HeadEvent ==
  ASSUME DataOK, DoingType, Kept, journal' = journal, NEW type \in HeadEvents, NEW rev \in Made', NEW after, NEW settles,
         rev \in Tips', workspace'.head = rev, doing.key.kind \in {"commit", "integrate"},
         journal.candidate # None => journal.candidate < rev,
         Produce(<<Event(type, rev, "")>>, after, settles)
  PROVE  EventsOK'
<1> DEFINE e == Event(type, rev, "")
<1>1. e \in [type : AllEvents, rev : Tips', what : Details]
  BY DEF Event, HeadEvents, AllEvents, Details
<1>2. e.type = type /\ e.rev = rev
  BY DEF Event
<1> HIDE DEF e
<1>3. doing'.events = <<e>> /\ doing'.key = doing.key
  BY Produced DEF e
<1>4. NewHead(e)'
  BY <1>2 DEF NewHead
<1> QED
  BY <1>1, <1>3, <1>4 DEF EventsOK

LEMMA KeepsCommit ==
  ASSUME PipelineInv, commitCandidate
  PROVE  PipelineInv'
<1> USE DEF PipelineInv
<1>1. /\ doing.key \in DOMAIN ops /\ doing.pc = "handle" /\ doing.key.kind = "commit"
      /\ journal' = journal /\ seen' = seen /\ ops' = ops /\ forge' = forge
      /\ doing.pc \in {"handle", "push", "open"}
      /\ doing.key.kind \notin {"create", "assure", "authority"}
  BY DEF HandOK, commitCandidate, Handles
<1>2. workspace.work # "none" /\ workspace.head \in Heads /\ workspace.work \in WorkStates
  BY <1>1 DEF WorkspaceOK, DataOK
<1>3. PICK type \in HeadEvents, end \in {"none", "execution_checkpointed"} :
        \/ /\ workspaceSound /\ Len(commits) < MaxRevision
           /\ NewCommit(Line(workspace.head),
                        IF workspace.head = None THEN journal.pinned ELSE commits[workspace.head].base,
                        workspace.work = "whole")
           /\ workspace' = [head |-> NextRevision, work |-> "clean"]
           /\ \/ Produce(<<Event(type, NextRevision, "")>>, Succeeded, end) /\ UNCHANGED faults
              \/ Fault /\ Produce(<<>>, [Failed EXCEPT !.made = NextRevision], "none")
        \/ /\ ~workspaceSound /\ Produce(<<Event(type, workspace.head, "")>>, Succeeded, end)
           /\ UNCHANGED <<commits, workspace, faults>>
        \/ /\ Produce(<<>>, [Failed EXCEPT !.refused = TRUE], "none")
           /\ UNCHANGED <<commits, workspace, faults>>
  BY DEF commitCandidate, HeadEvents
<1>4. CASE /\ Len(commits) < MaxRevision
           /\ NewCommit(Line(workspace.head),
                        IF workspace.head = None THEN journal.pinned ELSE commits[workspace.head].base,
                        workspace.work = "whole")
           /\ workspace' = [head |-> NextRevision, work |-> "clean"]
           /\ \/ Produce(<<Event(type, NextRevision, "")>>, Succeeded, end) /\ UNCHANGED faults
              \/ Fault /\ Produce(<<>>, [Failed EXCEPT !.made = NextRevision], "none")
  <2> DEFINE base == IF workspace.head = None THEN journal.pinned ELSE commits[workspace.head].base
  <2>1. Line(workspace.head) \in SUBSET Nat /\ base \in BaseOrNone
    BY <1>2, LineTyped, BaseTyped, Numbered
  <2>2. /\ Kept /\ NextRevision \in Made' /\ NextRevision \in Heads' /\ NextRevision \in Tips'
        /\ journal.candidate # None => journal.candidate < NextRevision
    <3> HIDE DEF base
    <3>1. NewCommit(Line(workspace.head), base, workspace.work = "whole")
      BY <1>4 DEF base
    <3> QED
      BY <1>4, <2>1, <3>1, Commits1
  <2>3. workspace' \in [head : Heads', work : WorkStates] /\ workspace'.head = NextRevision
    BY <1>4, <2>2 DEF WorkStates
  <2>4. WorkspaceKept
    BY <1>4 DEF WorkspaceKept
  <2>5. forge' \in ForgeOver(Tips', Made') /\ forge'.branch = forge.branch
    BY <1>1, <2>2, ForgeWider DEF Kept
  <2>6. /\ Succeeded \in OpType' /\ Succeeded.attempt <= attemptsFor(doing.key.kind)
        /\ Failed \in OpType' /\ Failed.attempt <= attemptsFor(doing.key.kind)
    BY <1>1, <2>2, Ends1, Grown DEF Kept
  <2>7. CASE Produce(<<Event(type, NextRevision, "")>>, Succeeded, end) /\ UNCHANGED faults
    <3>1. EventsOK'
      BY <1>1, <1>3, <2>2, <2>3, <2>7, HeadEvent
    <3>2. faults' \in 0 .. MaxFaults
      BY <2>7 DEF DataOK
    <3> QED
      BY <1>1, <1>3, <2>2, <2>3, <2>4, <2>5, <2>6, <2>7, <3>1, <3>2, HandlerKeeps
  <2>8. CASE Fault /\ Produce(<<>>, [Failed EXCEPT !.made = NextRevision], "none")
    <3>1. faults' \in 0 .. MaxFaults
      BY <2>8, Faulted
    <3> DEFINE after == [Failed EXCEPT !.made = NextRevision]
    <3>2. after \in OpType' /\ after.attempt <= attemptsFor(doing.key.kind)
      BY <2>2, <2>6 DEF OpType, OpOver
    <3>3. Produce(<<>>, after, "none")
      BY <2>8
    <3> HIDE DEF after
    <3>4. doing'.events = <<>>
      BY <3>3, Produced
    <3>5. doing'.events \in Seq(Harmless)
      BY <3>4
    <3>6. EventsOK'
      BY <2>2, <3>4, <3>5, HarmlessEvents DEF Kept
    <3> QED
      BY <1>1, <2>2, <2>3, <2>4, <2>5, <3>1, <3>2, <3>3, <3>6, HandlerKeeps
  <2> QED
    BY <1>4, <2>7, <2>8
<1>5. CASE /\ ~workspaceSound /\ Produce(<<Event(type, workspace.head, "")>>, Succeeded, end)
           /\ UNCHANGED <<commits, workspace, faults>>
  <2>0. workspace' = workspace /\ commits' = commits
    BY <1>5
  <2>1. Kept /\ WorkspaceKept
    BY <2>0 DEF Kept, WorkspaceKept, DataOK
  <2>2. Heads' = Heads /\ Tips' = Tips /\ Made' = Made /\ OpType' = OpType
    BY <1>5 DEF Heads, Tips, Made, OpType
  <2>3. workspace.head # None /\ (journal.candidate # None => journal.candidate < workspace.head)
    <3>1. workspace.head # journal.candidate
      BY <1>2, <1>5 DEF workspaceSound
    <3>2. journal.candidate # None => journal.candidate \in Nat /\ workspace.head \in Nat
      BY <1>2, Fields, Numbered DEF WorkspaceOK
    <3> QED
      BY <3>1, <3>2 DEF WorkspaceOK
  <2>4. workspace.head \in Made' /\ workspace.head \in Tips'
    BY <1>2, <2>2, <2>3, Numbered
  <2>5. EventsOK'
    BY <1>1, <1>3, <1>5, <2>1, <2>3, <2>4, HeadEvent
  <2>6. Succeeded \in OpType' /\ Succeeded.attempt <= attemptsFor(doing.key.kind)
    BY <1>1, <2>2, Ends1
  <2>7. forge' \in ForgeOver(Tips', Made') /\ forge'.branch = forge.branch
    BY <1>1, <2>2, SameForge
  <2>8. workspace' \in [head : Heads', work : WorkStates] /\ faults' \in 0 .. MaxFaults
    BY <1>5, <2>2 DEF DataOK
  <2> QED
    BY <1>1, <1>3, <1>5, <2>1, <2>5, <2>6, <2>7, <2>8, HandlerKeeps
<1>6. CASE /\ Produce(<<>>, [Failed EXCEPT !.refused = TRUE], "none")
           /\ UNCHANGED <<commits, workspace, faults>>
  <2>1. faults' \in 0 .. MaxFaults /\ <<>> \in Seq(Harmless)
    BY <1>6 DEF DataOK
  <2> DEFINE after == [Failed EXCEPT !.refused = TRUE]
  <2>2. after \in {Succeeded, Failed, [Failed EXCEPT !.refused = TRUE]} /\ Produce(<<>>, after, "none")
    BY <1>6
  <2> HIDE DEF after
  <2> QED
    BY <1>1, <1>6, <2>1, <2>2, SameForge, QuietHandler
<1> QED
  BY <1>3, <1>4, <1>5, <1>6

LEMMA KeepsIntegrate ==
  ASSUME PipelineInv, integrateBase
  PROVE  PipelineInv'
<1> USE DEF PipelineInv
<1>1. /\ doing.key \in DOMAIN ops /\ doing.pc = "handle" /\ doing.key.kind = "integrate"
      /\ journal' = journal /\ seen' = seen /\ ops' = ops /\ forge' = forge /\ faults' = faults
      /\ doing.pc \in {"handle", "push", "open"}
      /\ doing.key.kind \notin {"create", "assure", "authority"}
      /\ workspace.work # "none"
  BY DEF HandOK, integrateBase, Handles, workspaceSound
<1>2. faults' \in 0 .. MaxFaults /\ <<>> \in Seq(Harmless)
  BY <1>1 DEF DataOK
<1>3. CASE UNCHANGED <<commits, workspace>> /\ \E after \in {Succeeded, Failed} : Produce(<<>>, after, "none")
  <2>1. PICK after \in {Succeeded, Failed} : Produce(<<>>, after, "none")
    BY <1>3
  <2> QED
    BY <1>1, <1>2, <1>3, <2>1, SameForge, QuietHandler
<1>4. CASE /\ Len(commits) < MaxRevision
           /\ NewCommit(IF published THEN Line(journal.candidate) ELSE {}, forge.base,
                        commits[journal.candidate].whole)
           /\ workspace' = [workspace EXCEPT !.head = NextRevision]
           /\ Produce(<<Event("base_integrated", NextRevision, "")>>, Succeeded, "none")
           /\ journal.candidate \in Made
  <2> DEFINE line == IF published THEN Line(journal.candidate) ELSE {}
  <2>1. line \in SUBSET Nat
    BY LineTyped, Fields
  <2>2. forge.base \in BaseOrNone /\ commits[journal.candidate].whole \in BOOLEAN
    BY <1>4, BaseTyped
  <2>3. NewCommit(line, forge.base, commits[journal.candidate].whole)
    BY <1>4
  <2> HIDE DEF line
  <2>4. /\ Kept /\ NextRevision \in Made' /\ NextRevision \in Heads' /\ NextRevision \in Tips'
        /\ journal.candidate # None => journal.candidate < NextRevision
    BY <1>4, <2>1, <2>2, <2>3, Commits1
  <2>5. /\ workspace' \in [head : Heads', work : WorkStates] /\ workspace'.head = NextRevision
        /\ workspace'.work = workspace.work
    BY <1>4, <2>4 DEF DataOK
  <2>6. WorkspaceKept
    BY <2>5 DEF WorkspaceKept
  <2>7. forge' \in ForgeOver(Tips', Made') /\ forge'.branch = forge.branch
    BY <1>1, <2>4, ForgeWider DEF Kept
  <2>8. Succeeded \in OpType' /\ Succeeded.attempt <= attemptsFor(doing.key.kind)
    BY <1>1, <2>4, Ends1, Grown DEF Kept
  <2>9. EventsOK'
    BY <1>1, <1>4, <2>4, <2>5, HeadEvent DEF HeadEvents
  <2> QED
    BY <1>1, <1>2, <1>4, <2>4, <2>5, <2>6, <2>7, <2>8, <2>9, HandlerKeeps
<1>5. journal.candidate \in Made
  BY <1>1, Fields, Numbered DEF HandOK
<1> QED
  BY <1>3, <1>4, <1>5 DEF integrateBase

LEMMA KeepsAuthority ==
  ASSUME PipelineInv, evaluateAuthority
  PROVE  PipelineInv'
<1> USE DEF PipelineInv
<1> DEFINE what == IF journal.candidate \in Gated /\ ~doing.answered THEN "awaiting" ELSE "authorized"
           e == Event("authority_evaluated", None, what)
<1>1. /\ doing.key \in DOMAIN ops /\ doing.pc = "handle" /\ doing.key.kind = "authority"
      /\ journal' = journal /\ seen' = seen /\ ops' = ops /\ forge' = forge /\ faults' = faults
      /\ commits' = commits /\ workspace' = workspace
      /\ doing.pc \in {"handle", "push", "open"}
      /\ Produce(<<e>>, Succeeded, "none")
      /\ OfCandidate(doing.key)
      /\ doing.key.mark = IF doing.answered THEN "answered" ELSE "asked"
  BY DEF HandOK, evaluateAuthority, Handles
<1>2. Heads' = Heads /\ Tips' = Tips /\ Made' = Made /\ OpType' = OpType
  BY <1>1 DEF Heads, Tips, Made, OpType
<1>4. /\ what \in Statuses /\ what \in Details
      /\ doing.key.rev \in Gated /\ doing.key.mark = "asked" => what # "authorized"
  <2>1. CASE journal.candidate \in Gated /\ ~doing.answered
    BY <2>1 DEF Statuses, Details
  <2>2. CASE ~(journal.candidate \in Gated /\ ~doing.answered)
    BY <1>1, <2>2 DEF Statuses, Details, OfCandidate
  <2> QED
    BY <2>1, <2>2
<1> HIDE DEF what
<1>3. e \in [type : AllEvents, rev : Tips', what : Details] /\ e.type = "authority_evaluated" /\ e.what = what
  BY <1>2, <1>4, SameForge DEF Event, AllEvents
<1> HIDE DEF e
<1>5. doing'.events = <<e>> /\ doing'.key = doing.key
  BY <1>1, Produced
<1>6. \A x : x = e => NewDecision(x)'
  BY <1>3, <1>4, <1>5 DEF NewDecision
<1>7. EventsOK'
  <2>1. PICK x : x = e
    OBVIOUS
  <2>2. x \in [type : AllEvents, rev : Tips', what : Details] /\ doing'.events = <<x>> /\ NewDecision(x)'
    BY <1>3, <1>5, <1>6, <2>1
  <2> QED
    BY <1>1, <1>5, <2>2 DEF EventsOK
<1>8. Kept /\ WorkspaceKept
  BY <1>1 DEF Kept, WorkspaceKept, DataOK
<1>9. Succeeded \in OpType' /\ Succeeded.attempt <= attemptsFor(doing.key.kind)
  BY <1>1, <1>2, Ends1
<1>10. forge' \in ForgeOver(Tips', Made') /\ forge'.branch = forge.branch
  BY <1>1, <1>2, SameForge
<1>11. workspace' \in [head : Heads', work : WorkStates] /\ faults' \in 0 .. MaxFaults
  BY <1>1, <1>2 DEF DataOK
<1>12. <<e>> # <<>>
  OBVIOUS
<1> QED
  BY <1>1, <1>7, <1>8, <1>9, <1>10, <1>11, <1>12, HandlerKeeps

(* The verdict is on a commit whose assurance had not succeeded, so it      *)
(* replaces none that somebody relies on.                                   *)
LEMMA KeepsAssure ==
  ASSUME PipelineInv, assureCandidate
  PROVE  PipelineInv'
<1> USE DEF PipelineInv
<1>1. /\ doing.key \in DOMAIN ops /\ doing.pc = "handle" /\ doing.key.kind = "assure"
      /\ journal' = journal /\ seen' = seen /\ ops' = ops /\ forge' = forge /\ workspace' = workspace
      /\ doing.pc \in {"handle", "push", "open"}
      /\ ops[doing.key].state # "succeeded"
      /\ OfCandidate(doing.key) /\ doing.key.mark = ""
  BY DEF HandOK, assureCandidate, Handles
<1>2. PICK verdict \in {"passed", "refused", "unproved"} :
        /\ commits' = [commits EXCEPT ![journal.candidate].passed = verdict = "passed"]
        /\ Produce(<<Event("assurance_observed", journal.candidate, verdict)>>,
                   IF verdict = "unproved" THEN Failed ELSE Succeeded, "none")
        /\ IF verdict = "unproved" THEN Fault ELSE UNCHANGED faults
  BY DEF assureCandidate
<1>3. journal.candidate \in Made /\ journal.candidate \in Tips /\ doing.key.rev = journal.candidate
  BY <1>1, Fields, Numbered DEF OfCandidate
<1>4. doing.key = AssureKey(journal.candidate)
  <2>1. doing.key \in Keys
    BY <1>1, HeldOp
  <2> QED
    BY <1>1, <1>3, <2>1 DEF Keys, AssureKey, Key
<1>5. ~Done(AssureKey(journal.candidate))
  BY <1>1, <1>4 DEF Done
<1> DEFINE c == [commits[journal.candidate] EXCEPT !.passed = verdict = "passed"]
<1>6. commits[journal.candidate] \in Commits
  BY <1>3, Numbered
<1>7. c \in Commits /\ (verdict = "passed" => c.passed)
  BY <1>6 DEF Commits
<1>8. commits' = [commits EXCEPT ![journal.candidate] = c]
  BY <1>2
<1> HIDE DEF c
<1>9. /\ commits' \in Seq(Commits) /\ Len(commits') = Len(commits)
      /\ \A rev \in Made : rev # journal.candidate => commits'[rev] = commits[rev]
      /\ commits'[journal.candidate] = c
  BY <1>3, <1>7, <1>8 DEF DataOK, Made
<1>10. Kept
  BY <1>5, <1>9 DEF Kept, DataOK
<1>11. Heads' = Heads /\ Tips' = Tips /\ Made' = Made /\ OpType' = OpType
  BY <1>9 DEF Heads, Tips, Made, OpType
<1> DEFINE e == Event("assurance_observed", journal.candidate, verdict)
           after == IF verdict = "unproved" THEN Failed ELSE Succeeded
<1>12. /\ e \in [type : AllEvents, rev : Tips', what : Details] /\ e.type = "assurance_observed"
       /\ e.rev = journal.candidate /\ e.what = verdict
  BY <1>3, <1>11 DEF Event, AllEvents, Details
<1>13. after \in OpType' /\ after.attempt <= attemptsFor(doing.key.kind)
  BY <1>1, <1>11, Ends1
<1>14. Produce(<<e>>, after, "none")
  BY <1>2
<1> HIDE DEF e, after
<1>15. doing'.events = <<e>> /\ doing'.key = doing.key
  BY <1>14, Produced
<1>16. EventsOK'
  <2>1. PICK x : x = e
    OBVIOUS
  <2>2. NewVerdict(x)'
    BY <1>3, <1>7, <1>9, <1>12, <1>15, <2>1 DEF NewVerdict, Verdicts
  <2> QED
    BY <1>1, <1>12, <1>15, <2>1, <2>2 DEF EventsOK
<1>17. WorkspaceKept
  BY <1>1 DEF WorkspaceKept
<1>18. forge' \in ForgeOver(Tips', Made') /\ forge'.branch = forge.branch
  BY <1>1, <1>11, SameForge
<1>19. workspace' \in [head : Heads', work : WorkStates]
  BY <1>1, <1>11 DEF DataOK
<1>20. faults' \in 0 .. MaxFaults
  BY <1>2, Faulted DEF DataOK
<1>21. <<e>> # <<>>
  OBVIOUS
<1> QED
  BY <1>1, <1>10, <1>13, <1>14, <1>16, <1>17, <1>18, <1>19, <1>20, <1>21, HandlerKeeps

(* The branch goes to the candidate of the push that is handled. *)
LEMMA KeepsPush ==
  ASSUME PipelineInv, pushCandidate
  PROVE  PipelineInv'
<1> USE DEF PipelineInv
<1>1. /\ doing.key \in DOMAIN ops /\ doing.pc = "push" /\ doing.key.kind = "push"
      /\ UNCHANGED <<journal, seen, ops, commits, workspace, faults>>
      /\ doing.pc \in {"handle", "push", "open"}
      /\ OfCandidate(doing.key) /\ Proved(doing.key.rev)
      /\ doing.key.kind \notin {"create", "assure", "authority"}
  BY DEF HandOK, pushCandidate
<1>2. faults' \in 0 .. MaxFaults /\ <<>> \in Seq(Harmless)
  BY <1>1 DEF DataOK
<1>3. journal.candidate \in Made /\ journal.candidate \in Tips /\ Proved(journal.candidate)
  BY <1>1, Fields, Numbered DEF OfCandidate
<1>4. doing.remote \in Tips
  BY DEF DoingType
<1>5. CASE /\ forge' = forge
           /\ \E events \in {<<>>, <<Event("external_changed", doing.remote, "")>>},
                 after \in {Succeeded, Failed} : Produce(events, after, "none")
  <2>1. PICK events \in {<<>>, <<Event("external_changed", doing.remote, "")>>},
             after \in {Succeeded, Failed} : Produce(events, after, "none")
    BY <1>5
  <2>2. Event("external_changed", doing.remote, "") \in Harmless
    BY <1>4, HarmlessMade DEF Details
  <2>3. events \in Seq(Harmless)
    BY <1>2, <2>1, <2>2, HarmlessOne, Zenon
  <2>4. forge' \in ForgeOver(Tips, Made) /\ forge'.branch = forge.branch
    BY <1>5, SameForge
  <2> QED
    BY <1>1, <1>2, <2>1, <2>3, <2>4, QuietHandler
<1>6. CASE /\ forge' = [forge EXCEPT !.branch = journal.candidate]
           /\ Produce(<<>>, Succeeded, "none")
  <2>1. Kept /\ WorkspaceKept
    BY <1>1 DEF Kept, WorkspaceKept, DataOK
  <2>2. Heads' = Heads /\ Tips' = Tips /\ Made' = Made /\ OpType' = OpType
    BY <1>1 DEF Heads, Tips, Made, OpType
  <2>3. forge' \in ForgeOver(Tips', Made') /\ forge'.branch = journal.candidate
    BY <1>3, <1>6, <2>2, SameForge DEF ForgeOver
  <2>4. Succeeded \in OpType' /\ Succeeded.attempt <= attemptsFor(doing.key.kind)
    BY <1>1, <2>2, Ends1
  <2>5. workspace' \in [head : Heads', work : WorkStates]
    BY <1>1, <2>2 DEF DataOK
  <2>6. doing'.events = <<>>
    BY <1>6, Produced
  <2>7. doing'.events \in Seq(Harmless)
    BY <2>6
  <2>8. EventsOK'
    BY <2>1, <2>6, <2>7, HarmlessEvents DEF Kept
  <2>9. journal' = journal /\ seen' = seen /\ ops' = ops
    BY <1>1
  <2> QED
    BY <1>1, <1>2, <1>3, <1>6, <2>1, <2>3, <2>4, <2>5, <2>8, <2>9, HandlerKeeps
<1> QED
  BY <1>5, <1>6 DEF pushCandidate

-----------------------------------------------------------------------------
(* Everybody else, and the driver between two operations.                   *)

(* Everything but the driver's record. *)
LEMMA RestKeeps ==
  ASSUME PipelineInv, journal' \in JournalOver(Heads, Tips), SameCore, seen' \subseteq Observations,
         UNCHANGED <<ops, commits>>,
         workspace' \in [head : Heads, work : WorkStates], WorkspaceKept,
         forge' \in ForgeOver(Tips, Made), forge'.branch = forge.branch \/ forge'.branch = Foreign,
         faults' \in 0 .. MaxFaults
  PROVE  /\ DataOK' /\ OpsOK' /\ WorkspaceOK' /\ JudgedOK' /\ DecidedOK' /\ BranchOK'
         /\ Heads' = Heads /\ Tips' = Tips /\ Made' = Made /\ OpType' = OpType
<1> USE DEF PipelineInv
<1>1. Kept
  BY DEF Kept, DataOK
<1>2. OpsOK' /\ WorkspaceOK' /\ JudgedOK' /\ DecidedOK' /\ BranchOK'
  BY <1>1, Steady
<1>3. Heads' = Heads /\ Tips' = Tips /\ Made' = Made /\ OpType' = OpType
  BY DEF Heads, Tips, Made, OpType
<1>4. DataOK'
  BY <1>3 DEF DataOK, ForgeOver
<1> QED
  BY <1>2, <1>3, <1>4

LEMMA SameDomain ==
  DOMAIN Idle' = DOMAIN Idle /\ Idle' = Idle
  BY DEF Idle, Unwanted, Key, Fresh, NoFailure

LEMMA AtRest ==
  ASSUME doing' = Idle
  PROVE  DoingType' /\ HandOK' /\ EndOK'
<1>1. doing'.pc = "idle" /\ doing'.remote = None /\ doing'.settles = "none"
  BY DEF Idle
<1> QED
  BY <1>1, SameDomain DEF DoingType, HandOK, EndOK, Tips

(* The driver goes on as it was. *)
LEMMA DoingKept ==
  ASSUME PipelineInv, SameCore, UNCHANGED <<ops, commits, workspace>>,
         doing'.pc = doing.pc, doing'.key = doing.key, doing'.events = doing.events,
         doing'.after = doing.after, doing'.answered = doing.answered, doing'.remote = doing.remote,
         doing'.settles = doing.settles, DOMAIN doing' = DOMAIN doing
  PROVE  DoingType' /\ HandOK' /\ EndOK'
<1> USE DEF PipelineInv
<1>1. Tips' = Tips /\ Made' = Made /\ OpType' = OpType
  BY DEF Heads, Tips, Made, OpType
<1>2. DoingType'
  BY <1>1, SameDomain DEF DoingType
<1>3. HandOK'
  BY DEF HandOK, OfCandidate, Proved, Done, AssureKey, Key, SameCore
<1>4. EventsOK => EventsOK'
  <2>1. Harmless' = Harmless
    BY <1>1 DEF Harmless
  <2>2. \A e : NewHead(e)' <=> NewHead(e)
    BY <1>1 DEF NewHead, SameCore
  <2>3. \A e : NewVerdict(e)' <=> NewVerdict(e)
    BY DEF NewVerdict
  <2>4. \A e : NewDecision(e)' <=> NewDecision(e)
    BY DEF NewDecision
  <2> QED
    BY <1>1, <2>1, <2>2, <2>3, <2>4 DEF EventsOK
<1>5. attemptsFor(doing.key.kind)' = attemptsFor(doing.key.kind)
  BY DEF attemptsFor
<1>6. EndOK'
  BY <1>1, <1>4, <1>5 DEF EndOK, OfCandidate, SameCore
<1> QED
  BY <1>2, <1>3, <1>6

LEMMA KeepsFindPullRequests ==
  ASSUME PipelineInv, findPullRequests
  PROVE  PipelineInv'
<1> USE DEF PipelineInv
<1>1. /\ UNCHANGED <<journal, seen, ops, commits, workspace, forge, faults>>
      /\ doing.pc = "handle" /\ doing.key.kind = "create_pr" /\ doing.key \in DOMAIN ops
  BY DEF findPullRequests, Handles, HandOK
<1>2. faults' \in 0 .. MaxFaults /\ <<>> \in Seq(Harmless)
  BY <1>1 DEF DataOK
<1>3. CASE doing' = [doing EXCEPT !.pc = "open"]
  <2>1. /\ doing'.pc = "open" /\ doing'.remote = doing.remote /\ doing'.key = doing.key
        /\ doing'.answered = doing.answered /\ doing'.settles = doing.settles
        /\ DOMAIN doing' = DOMAIN Idle
    BY <1>3, DoingFields DEF DoingType
  <2>2. SameCore /\ WorkspaceKept
    BY <1>1 DEF SameCore, WorkspaceKept
  <2>3. /\ journal' \in JournalOver(Heads, Tips) /\ seen' \subseteq Observations
        /\ workspace' \in [head : Heads, work : WorkStates] /\ forge' \in ForgeOver(Tips, Made)
    BY <1>1, SameForge DEF DataOK
  <2>4. /\ DataOK' /\ OpsOK' /\ WorkspaceOK' /\ JudgedOK' /\ DecidedOK' /\ BranchOK'
        /\ Tips' = Tips
    BY <1>1, <1>2, <2>2, <2>3, RestKeeps
  <2>5. DoingType' /\ EndOK'
    BY <2>1, <2>4, SameDomain DEF DoingType, EndOK
  <2>6. HandOK'
    BY <1>1, <2>1 DEF HandOK
  <2> QED
    BY <2>4, <2>5, <2>6
<1>4. CASE Produce(<<prObservation>>, Succeeded, "none")
  BY <1>1, <1>2, <1>4, SameForge, Observed, QuietHandler
<1>5. CASE Produce(<<>>, Failed, "none")
  BY <1>1, <1>2, <1>5, SameForge, EndsApart, QuietHandler
<1> QED
  BY <1>3, <1>4, <1>5 DEF findPullRequests

LEMMA KeepsWorld ==
  ASSUME PipelineInv, BaseMoves \/ ForeignPush \/ OpensPullRequest \/ Merges \/ ChecksFail
  PROVE  PipelineInv'
<1> USE DEF PipelineInv
<1>1. UNCHANGED <<journal, seen, ops, commits, workspace, doing, faults>>
  BY DEF BaseMoves, ForeignPush, OpensPullRequest, Merges, ChecksFail
<1>2. /\ forge' \in ForgeOver(Tips, Made)
      /\ forge'.branch = forge.branch \/ forge'.branch = Foreign
  <2>1. CASE BaseMoves
    <3>1. forge.base + 1 \in Bases
      BY <2>1, Names DEF BaseMoves, DataOK, Bases
    <3> QED
      BY <2>1, <3>1 DEF BaseMoves, DataOK, ForgeOver
  <2>2. CASE ForeignPush
    BY <2>2 DEF ForeignPush, DataOK, ForgeOver, Tips
  <2>3. CASE Merges
    BY <2>3 DEF Merges, DataOK, ForgeOver
  <2>4. CASE ChecksFail
    BY <2>4 DEF ChecksFail, DataOK, ForgeOver
  <2>5. CASE OpensPullRequest
    BY <2>5 DEF OpensPullRequest, DataOK, ForgeOver
  <2> QED
    BY <2>1, <2>2, <2>3, <2>4, <2>5
<1>3. SameCore /\ WorkspaceKept
  BY <1>1 DEF SameCore, WorkspaceKept
<1>4. /\ journal' \in JournalOver(Heads, Tips) /\ seen' \subseteq Observations
      /\ workspace' \in [head : Heads, work : WorkStates] /\ faults' \in 0 .. MaxFaults
  BY <1>1 DEF DataOK
<1>5. /\ DataOK' /\ OpsOK' /\ WorkspaceOK' /\ JudgedOK' /\ DecidedOK' /\ BranchOK'
      /\ Heads' = Heads /\ Tips' = Tips /\ Made' = Made /\ OpType' = OpType
  BY <1>1, <1>2, <1>3, <1>4, RestKeeps
<1> QED
  BY <1>1, <1>3, <1>5, DoingKept

LEMMA KeepsCrash ==
  ASSUME PipelineInv, Crash
  PROVE  PipelineInv'
<1> USE DEF PipelineInv
<1>1. /\ UNCHANGED <<journal, seen, ops, commits, forge>> /\ doing' = Idle /\ Fault
      /\ \/ workspace' = workspace
         \/ workspace' = [workspace EXCEPT !.work = "partial"]
  BY DEF Crash
<1>2. workspace' \in [head : Heads, work : WorkStates] /\ WorkspaceKept
  BY <1>1 DEF DataOK, WorkStates, WorkspaceKept
<1>3. SameCore /\ journal' \in JournalOver(Heads, Tips) /\ seen' \subseteq Observations
  BY <1>1 DEF SameCore, DataOK
<1>4. forge' \in ForgeOver(Tips, Made) /\ faults' \in 0 .. MaxFaults
  BY <1>1, SameForge, Faulted
<1>5. /\ DataOK' /\ OpsOK' /\ WorkspaceOK' /\ JudgedOK' /\ DecidedOK' /\ BranchOK'
  BY <1>1, <1>2, <1>3, <1>4, RestKeeps
<1> QED
  BY <1>1, <1>5, AtRest

(* An answer for the candidate: the decision stays what it was. *)
LEMMA KeepsAuthorize ==
  ASSUME PipelineInv, Authorize
  PROVE  PipelineInv'
<1> USE DEF PipelineInv
<1>1. UNCHANGED <<ops, commits, workspace, forge, faults>> /\ seen' = {}
  BY DEF Authorize
<1>2. journal.candidate \in Gated /\ journal.candidate \in Heads /\ journal.approvals \in SUBSET Gated
  BY Fields DEF Authorize
<1> DEFINE d == [journal.decision EXCEPT !.answer = journal.candidate]
<1>3. journal.decision \in [status : Statuses, answer : Heads]
  BY DEF DataOK, JournalOver
<1>4. d \in [status : Statuses, answer : Heads] /\ d.status = journal.decision.status
  BY <1>2, <1>3
<1>5. journal' = [journal EXCEPT !.approvals = @ \cup {journal.candidate}, !.stands = FALSE, !.decision = d]
  BY DEF Authorize
<1> HIDE DEF d
<1>6. journal' \in JournalOver(Heads, Tips)
  <2>1. journal.approvals \cup {journal.candidate} \in SUBSET Gated
    BY <1>2
  <2> QED
    BY <1>4, <1>5, <2>1 DEF DataOK, JournalOver
<1>7. SameCore
  BY <1>4, <1>5 DEF SameCore, DataOK, JournalOver
<1>8. /\ doing'.pc = doing.pc /\ doing'.key = doing.key /\ doing'.events = doing.events
      /\ doing'.after = doing.after /\ doing'.answered = doing.answered /\ doing'.remote = doing.remote
      /\ doing'.settles = doing.settles /\ DOMAIN doing' = DOMAIN doing
  BY DoingFields DEF Authorize, DoingType
<1>9. /\ WorkspaceKept /\ workspace' \in [head : Heads, work : WorkStates]
      /\ faults' \in 0 .. MaxFaults /\ forge' \in ForgeOver(Tips, Made)
  BY <1>1, SameForge DEF WorkspaceKept, DataOK
<1>10. DataOK' /\ OpsOK' /\ WorkspaceOK' /\ JudgedOK' /\ DecidedOK' /\ BranchOK'
  BY <1>1, <1>6, <1>7, <1>9, RestKeeps
<1> QED
  BY <1>1, <1>7, <1>8, <1>10, DoingKept

LEMMA WaitReason ==
  ASSUME Waits
  PROVE  conditions \in Reasons
  BY DEF Waits, conditions, Reasons

LEMMA Recorded ==
  ASSUME DataOK, NEW reason \in Reasons, recordDisposition(reason)
  PROVE  journal' \in JournalOver(Heads, Tips) /\ SameCore /\ seen' \subseteq Observations
<1>2. CASE journal' = journal /\ seen' = seen
  BY <1>2 DEF DataOK, SameCore
<1>3. CASE /\ journal' = [journal EXCEPT !.waits = reason, !.stands = reason = "goal_state_reached"]
           /\ seen' = {}
  <2> DEFINE st == reason = "goal_state_reached"
  <2>1. st \in BOOLEAN
    OBVIOUS
  <2>2. journal' = [journal EXCEPT !.waits = reason, !.stands = st]
    BY <1>3
  <2> HIDE DEF st
  <2>3. journal' \in JournalOver(Heads, Tips)
    BY <2>1, <2>2 DEF DataOK, JournalOver
  <2>4. SameCore
    BY <2>1, <2>2 DEF DataOK, JournalOver, SameCore
  <2> QED
    BY <1>3, <2>3, <2>4
<1> QED
  BY <1>2, <1>3 DEF recordDisposition

LEMMA KeepsSettle ==
  ASSUME PipelineInv, NEW reason \in Reasons, settle(reason)
  PROVE  PipelineInv'
<1> USE DEF PipelineInv
<1>1. /\ UNCHANGED <<ops, commits, workspace, forge, faults>> /\ doing' = Idle
      /\ recordDisposition(reason)
  BY DEF settle
<1>2. journal' \in JournalOver(Heads, Tips) /\ SameCore /\ seen' \subseteq Observations
  BY <1>1, Recorded
<1>3. /\ WorkspaceKept /\ workspace' \in [head : Heads, work : WorkStates]
      /\ faults' \in 0 .. MaxFaults /\ forge' \in ForgeOver(Tips, Made)
  BY <1>1, SameForge DEF WorkspaceKept, DataOK
<1>4. DataOK' /\ OpsOK' /\ WorkspaceOK' /\ JudgedOK' /\ DecidedOK' /\ BranchOK'
  BY <1>1, <1>2, <1>3, RestKeeps
<1> QED
  BY <1>1, <1>4, AtRest

LEMMA KeepsEnd ==
  ASSUME PipelineInv, End
  PROVE  PipelineInv'
<1> USE DEF PipelineInv
<1>1. /\ UNCHANGED <<ops, commits, workspace, forge, faults>> /\ doing' = Idle /\ seen' = {}
      /\ journal' = [journal EXCEPT !.ended = TRUE]
  BY DEF End
<1>2. journal' \in JournalOver(Heads, Tips)
  BY <1>1 DEF DataOK, JournalOver
<1>3. SameCore
  BY <1>1 DEF DataOK, JournalOver, SameCore
<1>4. /\ WorkspaceKept /\ workspace' \in [head : Heads, work : WorkStates]
      /\ faults' \in 0 .. MaxFaults /\ forge' \in ForgeOver(Tips, Made)
  BY <1>1, SameForge DEF WorkspaceKept, DataOK
<1>5. DataOK' /\ OpsOK' /\ WorkspaceOK' /\ JudgedOK' /\ DecidedOK' /\ BranchOK'
  BY <1>1, <1>2, <1>3, <1>4, RestKeeps
<1> QED
  BY <1>1, <1>5, AtRest

LEMMA KeepsObserveSource ==
  ASSUME PipelineInv, NEW desired, observeSource(desired), doing.pc = "idle"
  PROVE  PipelineInv'
<1> USE DEF PipelineInv
<1>1. UNCHANGED <<ops, commits, workspace, forge, doing, faults>>
  BY DEF observeSource
<1>2. journal' \in JournalOver(Heads, Tips) /\ SameCore /\ seen' \subseteq Observations
  <2>1. CASE Unmoved
    <3> DEFINE pinned == IF journal.pinned = None THEN forge.base ELSE journal.pinned
    <3>1. pinned \in BaseOrNone
      BY BaseTyped
    <3>2. journal' = [journal EXCEPT !.pinned = pinned] /\ seen' = seen \cup {"source"}
      BY <2>1 DEF observeSource
    <3> HIDE DEF pinned
    <3>3. journal' \in JournalOver(Heads, Tips)
      BY <3>1, <3>2 DEF DataOK, JournalOver
    <3>4. SameCore
      BY <3>1, <3>2 DEF DataOK, JournalOver, SameCore
    <3> QED
      BY <3>2, <3>3, <3>4 DEF DataOK, Observations
  <2>2. CASE ~Unmoved
    <3>1. recordDisposition(conditions) /\ Waits
      BY <2>2 DEF observeSource, Unmoved
    <3>2. conditions \in Reasons
      BY <3>1, WaitReason
    <3> QED
      BY <3>1, <3>2, Recorded
  <2> QED
    BY <2>1, <2>2
<1>3. /\ WorkspaceKept /\ workspace' \in [head : Heads, work : WorkStates]
      /\ faults' \in 0 .. MaxFaults /\ forge' \in ForgeOver(Tips, Made)
  BY <1>1, SameForge DEF WorkspaceKept, DataOK
<1>4. DataOK' /\ OpsOK' /\ WorkspaceOK' /\ JudgedOK' /\ DecidedOK' /\ BranchOK'
  BY <1>1, <1>2, <1>3, RestKeeps
<1> QED
  BY <1>1, <1>2, <1>4, DoingKept

LEMMA KeepsObserveGitHub ==
  ASSUME PipelineInv, NEW desired, observeGitHub(desired), doing.pc = "idle"
  PROVE  PipelineInv'
<1> USE DEF PipelineInv
<1> DEFINE head == forge.branch
           pr == [head |-> head, merged |-> forge.merged]
           ci == [head |-> head, failing |-> head \in forge.failing]
           known == workspaceSound /\ isAncestor(head, journal.candidate)
           s1 == IF changed(pr, journal.pr) THEN <<prObservation>> ELSE <<>>
           s2 == IF head # journal.candidate /\ journal.external = None /\ ~known
                 THEN <<Event("external_changed", head, "")>> ELSE <<>>
           what == IF ci.failing THEN "failing" ELSE "passing"
           s3 == IF changed(ci, journal.ci) THEN <<Event("ci_observed", head, what)>> ELSE <<>>
<1>1. /\ UNCHANGED <<ops, commits, workspace, forge, faults>>
      /\ desired.kind = "forge"
      /\ doing' = [doing EXCEPT !.pc = "append", !.key = desired, !.current = Unmoved,
                                !.events = s1 \o s2 \o s3]
      /\ IF Waits THEN recordDisposition(conditions) ELSE UNCHANGED <<journal, seen>>
  BY DEF observeGitHub, StartsObserving
<1>2. journal' \in JournalOver(Heads, Tips) /\ SameCore /\ seen' \subseteq Observations
  <2>1. CASE Waits
    <3>1. conditions \in Reasons /\ recordDisposition(conditions)
      BY <1>1, <2>1, WaitReason
    <3> QED
      BY <3>1, Recorded
  <2>2. CASE ~Waits
    BY <1>1, <2>2 DEF DataOK, SameCore
  <2> QED
    BY <2>1, <2>2
<1>3. /\ WorkspaceKept /\ workspace' \in [head : Heads, work : WorkStates]
      /\ faults' \in 0 .. MaxFaults /\ forge' \in ForgeOver(Tips, Made)
  BY <1>1, SameForge DEF WorkspaceKept, DataOK
<1>4. /\ DataOK' /\ OpsOK' /\ WorkspaceOK' /\ JudgedOK' /\ DecidedOK' /\ BranchOK'
      /\ Tips' = Tips
  BY <1>1, <1>2, <1>3, RestKeeps
<1>5. s1 \in Seq(Harmless)
  <2>1. <<>> \in Seq(Harmless)
    OBVIOUS
  <2> QED
    BY <2>1, Observed
<1>6. s2 \in Seq(Harmless)
  <2>1. Event("external_changed", head, "") \in Harmless
    BY SameForge, HarmlessMade DEF Details
  <2> DEFINE t == <<Event("external_changed", head, "")>>
  <2>2. t \in Seq(Harmless)
    BY <2>1, HarmlessOne
  <2>3. <<>> \in Seq(Harmless)
    OBVIOUS
  <2>4. s2 = t \/ s2 = <<>>
    OBVIOUS
  <2> HIDE DEF t, s2
  <2> QED
    BY <2>2, <2>3, <2>4, Zenon
<1>7. s3 \in Seq(Harmless)
  <2>1. what \in Details
    BY DEF Details
  <2> HIDE DEF what
  <2>2. Event("ci_observed", head, what) \in Harmless
    BY <2>1, SameForge, HarmlessMade
  <2>3. <<Event("ci_observed", head, what)>> \in Seq(Harmless) /\ <<>> \in Seq(Harmless)
    BY <2>2, HarmlessOne
  <2> QED
    BY <2>3
<1> HIDE DEF s1, s2, s3
<1>8. s1 \o s2 \o s3 \in Seq(Harmless)
  BY <1>5, <1>6, <1>7
<1>9. /\ doing'.pc = "append" /\ doing'.key = desired /\ doing'.events = s1 \o s2 \o s3
      /\ doing'.remote = doing.remote /\ doing'.settles = doing.settles /\ DOMAIN doing' = DOMAIN doing
  BY <1>1, DoingFields DEF DoingType
<1>10. DoingType'
  BY <1>4, <1>9, SameDomain DEF DoingType
<1>11. HandOK'
  BY <1>9 DEF HandOK
<1>12. EventsOK'
  BY <1>1, <1>8, <1>9, HarmlessEvents DEF DataOK
<1>13. EndOK'
  BY <1>1, <1>9, <1>12 DEF EndOK, Observations
<1> QED
  BY <1>4, <1>10, <1>11, <1>13

-----------------------------------------------------------------------------
(* The beginning and the end of an operation.                               *)

(* The driver's record once the operation is over. *)
LEMMA Over ==
  ASSUME DoingType, commits' = commits, doing.pc = "append",
         doing' = IF doing.settles = "none"
                  THEN [Idle EXCEPT !.failure = doing.failure, !.repeats = doing.repeats]
                  ELSE [doing EXCEPT !.pc = "settle"]
  PROVE  DoingType' /\ HandOK' /\ EndOK'
<1>1. Tips' = Tips /\ None \in Tips
  BY DEF Tips, Made
<1>2. CASE doing.settles = "none"
  <2>1. doing' = [Idle EXCEPT !.failure = doing.failure, !.repeats = doing.repeats]
    BY <1>2
  <2>2. /\ doing'.pc = "idle" /\ doing'.remote = None /\ doing'.settles = "none"
        /\ DOMAIN doing' = DOMAIN Idle
    BY <2>1 DEF Idle
  <2> QED
    BY <1>1, <2>2, SameDomain DEF DoingType, HandOK, EndOK
<1>3. CASE doing.settles # "none"
  <2>1. /\ doing'.pc = "settle" /\ doing'.remote = doing.remote /\ doing'.settles = doing.settles
        /\ DOMAIN doing' = DOMAIN Idle
    BY <1>3, DoingFields DEF DoingType
  <2>2. DoingType'
    BY <1>1, <2>1, SameDomain DEF DoingType
  <2>3. HandOK' /\ EndOK'
    BY <2>1 DEF HandOK, EndOK
  <2> QED
    BY <2>2, <2>3
<1> QED
  BY <1>2, <1>3

LEMMA KeepsFinish ==
  ASSUME PipelineInv, Finish
  PROVE  PipelineInv'
<1> USE DEF PipelineInv
<1> DEFINE k == doing.key
<1>1. /\ UNCHANGED <<journal, commits, workspace, forge, faults>>
      /\ doing.pc = "append" /\ doing.events = <<>>
      /\ doing' = IF doing.settles = "none"
                  THEN [Idle EXCEPT !.failure = doing.failure, !.repeats = doing.repeats]
                  ELSE [doing EXCEPT !.pc = "settle"]
  BY DEF Finish
<1>2. DoingType' /\ HandOK' /\ EndOK'
  BY <1>1, Over
<1>3. /\ SameCore /\ WorkspaceKept /\ workspace' \in [head : Heads, work : WorkStates]
      /\ faults' \in 0 .. MaxFaults /\ forge' \in ForgeOver(Tips, Made)
      /\ journal' \in JournalOver(Heads, Tips)
  BY <1>1, SameForge DEF SameCore, WorkspaceKept, DataOK
<1>4. CASE k.kind \in Observations
  <2>0. ops' = ops /\ (seen' = seen \/ seen' = seen \cup {k.kind})
    BY <1>4 DEF Finish
  <2>1. ops' = ops /\ seen' \subseteq Observations
    <3>1. seen \subseteq Observations
      BY DEF DataOK
    <3> QED
      BY <1>4, <2>0, <3>1
  <2>2. DataOK' /\ OpsOK' /\ WorkspaceOK' /\ JudgedOK' /\ DecidedOK' /\ BranchOK'
    BY <1>1, <1>3, <2>1, RestKeeps
  <2> QED
    BY <1>2, <2>2
<1>5. CASE k.kind \notin Observations
  <2>1. /\ k \in DOMAIN ops /\ ops[k].state # "succeeded"
        /\ doing.after \in OpType /\ doing.after.attempt <= attemptsFor(k.kind)
        /\ k.kind = "create" /\ doing.after.state = "succeeded" => workspace.work # "none"
        /\ k.kind = "assure" /\ doing.after.state = "succeeded" =>
             journal.assurance.commit = k.rev
               /\ (journal.assurance.verdict = "passed" => commits[k.rev].passed)
        /\ k.kind = "authority" /\ doing.after.state = "succeeded" =>
             (k.rev \in Gated /\ k.mark = "asked" => journal.decision.status # "authorized")
    BY <1>1, <1>5 DEF EndOK
  <2>2. ops' = [ops EXCEPT ![k] = doing.after] /\ seen' = seen
    BY <1>5 DEF Finish
  <2>3. DOMAIN ops' = DOMAIN ops /\ ops'[k] = doing.after /\ \A x \in DOMAIN ops : x # k => ops'[x] = ops[x]
    BY <2>1, <2>2
  <2>4. Heads' = Heads /\ Tips' = Tips /\ Made' = Made /\ OpType' = OpType /\ Keys' = Keys
    BY <1>1 DEF Heads, Tips, Made, OpType, Keys
  <2>5. DataOK'
    BY <1>1, <2>2, <2>4 DEF DataOK
  <2>6. OpsOK'
    BY <2>1, <2>3, <2>4 DEF OpsOK, attemptsFor
  <2>7. WorkspaceOK'
    BY <1>1, <2>1, <2>3 DEF WorkspaceOK
  <2>8. \A x : Done(x)' <=> IF x = k THEN doing.after.state = "succeeded" ELSE Done(x)
    BY <2>1, <2>3 DEF Done
  <2>9. JudgedOK'
    <3>1. journal.assurance.verdict = "passed" /\ journal.assurance.commit # None
            /\ Done(AssureKey(journal.assurance.commit))'
          => commits[journal.assurance.commit].passed
      <4>1. AssureKey(journal.assurance.commit).kind = "assure"
        BY KeyFields DEF AssureKey
      <4>2. Done(AssureKey(journal.assurance.commit))' =>
              Done(AssureKey(journal.assurance.commit)) \/ (k.kind = "assure" /\ doing.after.state = "succeeded")
        <5>1. PICK x : x = AssureKey(journal.assurance.commit)
          OBVIOUS
        <5>2. AssureKey(journal.assurance.commit)' = x
          BY <1>1, <5>1 DEF AssureKey, Key
        <5>3. Done(AssureKey(journal.assurance.commit))' <=> Done(x)'
          BY <5>2 DEF Done
        <5> QED
          BY <2>8, <4>1, <5>1, <5>3
      <4> QED
        BY <2>1, <4>2 DEF JudgedOK
    <3>2. journal' = journal /\ commits' = commits
      BY <1>1
    <3> QED
      BY <2>3, <3>1, <3>2 DEF JudgedOK
  <2>10. DecidedOK'
    <3> DEFINE a == Key("authority", journal.candidate, "asked")
    <3>1. a.kind = "authority" /\ a.rev = journal.candidate /\ a.mark = "asked"
      BY KeyFields
    <3>2. PICK x : x = a
      OBVIOUS
    <3>3. Key("authority", journal.candidate, "asked")' = x
      BY <1>1, <3>2 DEF Key
    <3>4. Done(Key("authority", journal.candidate, "asked"))' <=> Done(x)'
      BY <3>3 DEF Done
    <3>5. Done(x)' => Done(a) \/ (k = a /\ doing.after.state = "succeeded")
      BY <2>8, <3>2
    <3> QED
      BY <1>1, <2>1, <3>1, <3>4, <3>5 DEF DecidedOK
  <2>11. BranchOK'
    <3>1. SUFFICES ASSUME forge.branch \in Made
                   PROVE  BranchOK'
      BY <1>1, <2>4 DEF BranchOK
    <3>2. Proved(forge.branch)
      BY <3>1 DEF BranchOK
    <3>3. PICK x : x = AssureKey(forge.branch)
      OBVIOUS
    <3>4. AssureKey(forge.branch)' = x
      BY <1>1, <3>3 DEF AssureKey, Key
    <3>5. Done(x)'
      BY <2>1, <2>8, <3>2, <3>3 DEF Proved, Done
    <3>6. Done(AssureKey(forge.branch))'
      BY <3>4, <3>5 DEF Done
    <3> QED
      BY <1>1, <3>2, <3>6 DEF BranchOK, Proved
  <2> QED
    BY <1>2, <2>5, <2>6, <2>7, <2>9, <2>10, <2>11
<1> QED
  BY <1>4, <1>5

LEMMA OpTyped ==
  ASSUME OpsOK, NEW k, ~Done(k)
  PROVE  Op(k) \in OpType /\ Op(k).state # "succeeded"
<1>1. CASE k \in DOMAIN ops
  BY <1>1 DEF Op, OpsOK, Done
<1>2. CASE k \notin DOMAIN ops
  <2>1. Cardinality(DOMAIN ops) + 1 \in Nat
    BY FS_CardinalityType DEF OpsOK
  <2>2. None \in Heads
    BY DEF Heads
  <2> DEFINE n == Cardinality(DOMAIN ops) + 1
  <2>3. Op(k) = [Fresh EXCEPT !.at = n]
    BY <1>2 DEF Op
  <2> HIDE DEF n
  <2>4. n \in Nat
    BY <2>1 DEF n
  <2>5. Op(k) = [state |-> "planned", attempt |-> 0, mutated |-> FALSE, checkpoint |-> FALSE,
                 made |-> None, refused |-> FALSE, at |-> n]
    BY <2>3 DEF Fresh
  <2>6. Op(k) \in OpType
    BY <2>2, <2>4, <2>5 DEF OpType, OpOver
  <2> QED
    BY <2>5, <2>6
<1> QED
  BY <1>1, <1>2

LEMMA AssureFields ==
  \A rev : AssureKey(rev).kind = "assure" /\ AssureKey(rev).rev = rev /\ AssureKey(rev).mark = ""
  BY DEF AssureKey, Key

(* A push is planned for a candidate that is proved: its verdict is the one *)
(* its assurance returned, and its decision was taken with the answer.      *)
LEMMA PushPlanned ==
  ASSUME PipelineInv, Works(plan), plan.kind = "push"
  PROVE  OfCandidate(plan) /\ Proved(plan.rev)
<1> USE DEF PipelineInv
<1>1. /\ plan.rev = journal.candidate /\ bindCandidatePush # Unwanted
      /\ bindAssuranceGo = Unwanted \/ satisfied(bindAssuranceGo)
  BY PlanMade
<1>2. /\ bindAuthorityEvaluate # Unwanted /\ satisfied(bindAuthorityEvaluate)
      /\ journal.decision.status = "authorized"
  BY <1>1, PushBinding
<1>3. /\ bindBaseIntegrate # Unwanted
      /\ bindAuthorityEvaluate =
           Key("authority", journal.candidate,
               IF journal.candidate \in journal.approvals THEN "answered" ELSE "asked")
      /\ bindAuthorityEvaluate.kind = "authority"
  BY <1>2, AuthorityBinding
<1>4. /\ journal.candidate # None
      /\ journal.assurance.commit = journal.candidate /\ journal.assurance.verdict = "passed"
  BY <1>3, IntegrateBinding
<1>5. journal.contract /\ journal.complete
  BY <1>4 DEF JudgedOK
<1>6. bindAssuranceGo = AssureKey(journal.candidate)
  BY <1>4, <1>5 DEF bindAssuranceGo, AssureKey
<1>7. AssureKey(journal.candidate).kind = "assure"
  BY AssureFields
<1>8. bindAssuranceGo # Unwanted
  <2>1. Unwanted.kind = "none"
    BY DEF Unwanted, Key
  <2> QED
    BY <1>6, <1>7, <2>1
<1>9. Done(AssureKey(journal.candidate))
  BY <1>1, <1>6, <1>7, <1>8, DoneSatisfies DEF Observations
<1>10. commits[journal.candidate].passed
  BY <1>4, <1>9 DEF JudgedOK
<1>11. journal.candidate \in Gated => journal.candidate \in journal.approvals
  <2>1. SUFFICES ASSUME journal.candidate \in Gated, journal.candidate \notin journal.approvals
                 PROVE  FALSE
    OBVIOUS
  <2>2. bindAuthorityEvaluate = Key("authority", journal.candidate, "asked")
    BY <1>3, <2>1
  <2>3. Done(bindAuthorityEvaluate)
    BY <1>2, <1>3, DoneSatisfies DEF Observations
  <2> QED
    BY <1>2, <2>1, <2>2, <2>3 DEF DecidedOK
<1> QED
  BY <1>1, <1>4, <1>9, <1>10, <1>11 DEF OfCandidate, Proved

LEMMA KeepsStart ==
  ASSUME PipelineInv, Start(plan)
  PROVE  PipelineInv'
<1> USE DEF PipelineInv
<1> DEFINE desired == plan
           fresh == [Op(desired) EXCEPT !.attempt = @ + 1]
<1>1. /\ Works(plan) /\ ~Exhausted(plan)
      /\ journal' = [journal EXCEPT !.stands = FALSE]
      /\ UNCHANGED <<seen, commits, workspace, forge, faults>>
  BY DEF Start
<1>2. /\ plan \in Keys /\ ~satisfied(plan)
      /\ plan.kind = "invoke" => satisfied(Key("create", None, ""))
      /\ plan.kind = "commit" => \E k \in DOMAIN ops : k.kind = "invoke"
      /\ plan.kind = "assure" =>
           plan = AssureKey(journal.candidate) /\ journal.candidate # None
           /\ journal.contract /\ journal.complete
      /\ plan.kind = "integrate" => journal.candidate # None
      /\ plan.kind = "authority" =>
           /\ journal.candidate # None
           /\ plan = Key("authority", journal.candidate,
                         IF journal.candidate \in journal.approvals THEN "answered" ELSE "asked")
  BY <1>1, PlanMade
<1>3. plan.kind \in Kinds /\ plan.kind \notin Observations
  BY <1>2 DEF Keys, Kinds, Observations
<1>4. ~Done(plan)
  BY <1>2, <1>3, DoneSatisfies
<1>5. Op(plan) \in OpType /\ Op(plan).state # "succeeded"
  BY <1>4, OpTyped
<1>6. fresh \in OpType /\ fresh.state # "succeeded" /\ fresh.attempt <= attemptsFor(plan.kind)
  <2>1. Op(plan).attempt \in Nat /\ attemptsFor(plan.kind) \in Nat
    BY <1>5, Names DEF OpType, OpOver, attemptsFor
  <2>2. Op(plan).attempt < attemptsFor(plan.kind)
    BY <1>1, <2>1 DEF Exhausted
  <2>3. Op(plan).attempt + 1 \in Nat /\ Op(plan).attempt + 1 <= attemptsFor(plan.kind)
    BY <2>1, <2>2
  <2>4. fresh.attempt = Op(plan).attempt + 1 /\ fresh.state = Op(plan).state
    BY <1>5 DEF OpType, OpOver
  <2>5. fresh \in OpType
    BY <1>5, <2>3 DEF OpType, OpOver
  <2> QED
    BY <1>5, <2>3, <2>4, <2>5
<1>7. ops' = [k \in DOMAIN ops \cup {plan} |-> IF k = plan THEN fresh ELSE ops[k]]
  BY DEF Start
<1> HIDE DEF fresh, desired
<1>8. /\ DOMAIN ops' = DOMAIN ops \cup {plan} /\ ops'[plan] = fresh
      /\ \A k \in DOMAIN ops : k # plan => ops'[k] = ops[k]
  BY <1>7
<1>9. \A k : Done(k)' <=> Done(k)
  BY <1>4, <1>6, <1>8 DEF Done
<1>10. journal' \in JournalOver(Heads, Tips)
  BY <1>1 DEF DataOK, JournalOver
<1>11. /\ journal'.candidate = journal.candidate /\ journal'.complete = journal.complete
       /\ journal'.assurance = journal.assurance /\ journal'.decision = journal.decision
       /\ journal'.approvals = journal.approvals /\ journal'.contract = journal.contract
  BY <1>1 DEF DataOK, JournalOver
<1>12. Heads' = Heads /\ Tips' = Tips /\ Made' = Made /\ OpType' = OpType /\ Keys' = Keys
  BY <1>1 DEF Heads, Tips, Made, OpType, Keys
<1>13. DataOK'
  BY <1>1, <1>10, <1>12 DEF DataOK
<1>14. OpsOK'
  <2>1. IsFiniteSet(DOMAIN ops')
    BY <1>8, FS_AddElement DEF OpsOK
  <2> QED
    BY <1>2, <1>6, <1>8, <1>12, <2>1 DEF OpsOK, attemptsFor
<1>15. WorkspaceOK'
  <2>1. plan.kind = "invoke" => workspace.work # "none"
    <3>1. Key("create", None, "").kind = "create"
      BY KeyFields
    <3>2. plan.kind = "invoke" => Done(Key("create", None, ""))
      BY <1>2, <3>1, DoneSatisfies DEF Observations
    <3> QED
      BY <3>1, <3>2 DEF WorkspaceOK, Done
  <2>2. plan.kind = "commit" => workspace.work # "none"
    BY <1>2 DEF WorkspaceOK
  <2>3. workspace' = workspace
    BY <1>1
  <2> QED
    BY <1>6, <1>8, <1>11, <2>1, <2>2, <2>3 DEF WorkspaceOK
<1>a. plan.kind = "assure" => plan.rev = journal.candidate /\ plan.mark = ""
  BY <1>2, AssureFields
<1>b. plan.kind = "authority" =>
        /\ plan.rev = journal.candidate
        /\ plan.mark = IF journal.candidate \in journal.approvals THEN "answered" ELSE "asked"
  <2> DEFINE m == IF journal.candidate \in journal.approvals THEN "answered" ELSE "asked"
  <2>1. plan.kind = "authority" => plan = Key("authority", journal.candidate, m)
    BY <1>2
  <2> HIDE DEF m
  <2>2. Key("authority", journal.candidate, m).rev = journal.candidate
    BY DEF Key
  <2>3. Key("authority", journal.candidate, m).mark = m
    BY DEF Key
  <2>4. plan.kind = "authority" => plan.rev = journal.candidate /\ plan.mark = m
    BY <2>1, <2>2, <2>3
  <2> QED
    BY <2>4 DEF m
<1>16. plan.kind \in {"assure", "authority"} => OfCandidate(plan)
  BY <1>2, <1>a, <1>b DEF OfCandidate
<1>17. JudgedOK'
  <2>1. Done(AssureKey(journal.assurance.commit))' <=> Done(AssureKey(journal.assurance.commit))
    <3>1. PICK x : x = AssureKey(journal.assurance.commit)
      OBVIOUS
    <3>2. AssureKey(journal.assurance.commit)' = x
      BY <1>11, <3>1 DEF AssureKey, Key
    <3> QED
      BY <1>9, <3>1, <3>2 DEF Done
  <2>2. plan.kind \in {"assure", "authority"} =>
          plan.rev # None /\ journal.candidate # None /\ plan.rev <= journal.candidate
    BY <1>16, Fields, Numbered DEF OfCandidate
  <2>3. commits' = commits
    BY <1>1
  <2> QED
    BY <1>8, <1>11, <2>1, <2>2, <2>3 DEF JudgedOK
<1>18. DecidedOK'
  <2>1. PICK x : x = Key("authority", journal.candidate, "asked")
    OBVIOUS
  <2>2. Key("authority", journal.candidate, "asked")' = x
    BY <1>11, <2>1 DEF Key
  <2>3. Done(Key("authority", journal.candidate, "asked"))' <=> Done(x)
    BY <1>9, <2>2 DEF Done
  <2> QED
    BY <1>11, <2>1, <2>3 DEF DecidedOK
<1>19. \A rev : Proved(rev) => Proved(rev)'
  <2>1. SUFFICES ASSUME NEW rev, Proved(rev)
                 PROVE  Proved(rev)'
    OBVIOUS
  <2>2. Done(AssureKey(rev))'
    BY <1>9, <2>1 DEF Proved, Done, AssureKey, Key
  <2> QED
    BY <1>1, <1>11, <2>1, <2>2 DEF Proved
<1>20. BranchOK'
  <2>1. PICK b : b = forge.branch
    OBVIOUS
  <2>2. forge'.branch = b
    BY <1>1, <2>1
  <2>3. b \in Made => Proved(b)'
    BY <1>19, <2>1 DEF BranchOK
  <2> QED
    BY <1>12, <2>2, <2>3 DEF BranchOK, Proved
<1>21. /\ doing'.pc = "handle" /\ doing'.key = plan /\ doing'.remote = None /\ doing'.settles = "none"
       /\ doing'.answered = (journal.candidate \in journal.approvals)
       /\ DOMAIN doing' = DOMAIN Idle
  BY DEF Start, Idle
<1>22. DoingType'
  BY <1>21, SameDomain DEF DoingType, Tips
<1>23. EndOK'
  BY <1>21 DEF EndOK
<1>24. HandOK'
  <2>1. plan.kind = "push" => OfCandidate(plan) /\ Proved(plan.rev)
    BY <1>1, PushPlanned
  <2>2. PICK x : x = plan.rev
    OBVIOUS
  <2>3. plan.kind = "push" => Proved(x)'
    BY <1>19, <2>1, <2>2
  <2>4. doing'.key.kind = "push" => Proved(doing.key.rev)'
    BY <1>21, <2>2, <2>3 DEF Proved
  <2>5. doing'.key \in DOMAIN ops' /\ ops'[doing'.key].state # "succeeded"
    BY <1>6, <1>8, <1>21
  <2>6. doing'.key.kind \in {"assure", "authority", "push"} => OfCandidate(doing.key)'
    BY <1>11, <1>16, <1>21, <2>1 DEF OfCandidate
  <2>7. doing'.key.kind = "assure" => doing'.key.mark = "" /\ journal'.contract /\ journal'.complete
    BY <1>2, <1>11, <1>21, <1>a
  <2>8. doing'.key.kind = "authority" => doing'.key.mark = IF doing'.answered THEN "answered" ELSE "asked"
    BY <1>b, <1>21
  <2>9. doing'.key.kind = "integrate" => journal'.candidate # None
    BY <1>2, <1>11, <1>21
  <2>10. doing'.key.kind = "authority" => (doing'.answered => doing'.key.rev \in journal'.approvals)
    BY <1>b, <1>11, <1>21
  <2> QED
    BY <1>21, <2>4, <2>5, <2>6, <2>7, <2>8, <2>9, <2>10 DEF HandOK
<1> QED
  BY <1>13, <1>14, <1>15, <1>17, <1>18, <1>20, <1>22, <1>23, <1>24

-----------------------------------------------------------------------------
(* An event is journalled.                                                  *)

(* What each event makes of the journal. *)
LEMMA Applied ==
  ASSUME NEW j, NEW e
  PROVE  /\ e.type = "contract_compiled" =>
              apply(j, e) = [[j EXCEPT !.contract = TRUE] EXCEPT !.stands = FALSE]
         /\ e.type = "candidate_changed" => apply(j, e) = [j EXCEPT !.stands = FALSE]
         /\ e.type = "execution_completed" =>
              apply(j, e) = [[j EXCEPT !.complete = TRUE] EXCEPT !.stands = FALSE]
         /\ e.type = "external_changed" =>
              apply(j, e) = [[j EXCEPT !.external = e.rev] EXCEPT !.stands = FALSE]
         /\ e.type = "pr_observed" =>
              \/ apply(j, e) = j
              \/ apply(j, e) = [j EXCEPT !.pr = [head |-> e.rev, merged |-> e.what = "merged"]]
         /\ e.type = "ci_observed" =>
              \/ apply(j, e) = j
              \/ apply(j, e) = [j EXCEPT !.ci = [head |-> e.rev, failing |-> e.what = "failing"]]
<1>1. e.type = "contract_compiled" =>
        apply(j, e) = [[j EXCEPT !.contract = TRUE] EXCEPT !.stands = FALSE]
  BY DEF apply
<1>2. e.type = "candidate_changed" => apply(j, e) = [j EXCEPT !.stands = FALSE]
  BY DEF apply
<1>3. e.type = "execution_completed" =>
        apply(j, e) = [[j EXCEPT !.complete = TRUE] EXCEPT !.stands = FALSE]
  BY DEF apply
<1>4. e.type = "external_changed" =>
        apply(j, e) = [[j EXCEPT !.external = e.rev] EXCEPT !.stands = FALSE]
  BY DEF apply
<1>5. e.type = "pr_observed" =>
        \/ apply(j, e) = j
        \/ apply(j, e) = [j EXCEPT !.pr = [head |-> e.rev, merged |-> e.what = "merged"]]
  BY DEF apply
<1>6. e.type = "ci_observed" =>
        \/ apply(j, e) = j
        \/ apply(j, e) = [j EXCEPT !.ci = [head |-> e.rev, failing |-> e.what = "failing"]]
  BY DEF apply
<1> QED
  BY <1>1, <1>2, <1>3, <1>4, <1>5, <1>6

LEMMA AppliedHead ==
  ASSUME NEW j, NEW e
  PROVE  /\ e.type = "candidate_committed" =>
              apply(j, e) = [[j EXCEPT !.candidate = e.rev, !.complete = TRUE] EXCEPT !.stands = FALSE]
         /\ e.type = "candidate_checkpointed" =>
              apply(j, e) = [[j EXCEPT !.candidate = e.rev, !.complete = FALSE] EXCEPT !.stands = FALSE]
         /\ e.type = "base_integrated" =>
              apply(j, e) = [[j EXCEPT !.candidate = e.rev, !.complete = TRUE, !.base = commits[e.rev].base]
                               EXCEPT !.stands = FALSE]
         /\ e.type = "authority_evaluated" =>
              apply(j, e) = [[j EXCEPT !.decision = [status |-> e.what, answer |-> None]]
                               EXCEPT !.stands = FALSE]
         /\ e.type = "assurance_observed" /\ e.rev = HeadOf(j) =>
              apply(j, e) = [[j EXCEPT !.assurance = [commit |-> e.rev, verdict |-> e.what]]
                               EXCEPT !.stands = FALSE]
<1>1. e.type = "candidate_committed" =>
        apply(j, e) = [[j EXCEPT !.candidate = e.rev, !.complete = TRUE] EXCEPT !.stands = FALSE]
  BY DEF apply
<1>2. e.type = "candidate_checkpointed" =>
        apply(j, e) = [[j EXCEPT !.candidate = e.rev, !.complete = FALSE] EXCEPT !.stands = FALSE]
  BY DEF apply
<1>3. e.type = "base_integrated" =>
        apply(j, e) = [[j EXCEPT !.candidate = e.rev, !.complete = TRUE, !.base = commits[e.rev].base]
                         EXCEPT !.stands = FALSE]
  BY DEF apply
<1>4. e.type = "authority_evaluated" =>
        apply(j, e) = [[j EXCEPT !.decision = [status |-> e.what, answer |-> None]]
                         EXCEPT !.stands = FALSE]
  BY DEF apply
<1>5. e.type = "assurance_observed" /\ e.rev = HeadOf(j) =>
        apply(j, e) = [[j EXCEPT !.assurance = [commit |-> e.rev, verdict |-> e.what]]
                         EXCEPT !.stands = FALSE]
  BY DEF apply, supersedes
<1> QED
  BY <1>1, <1>2, <1>3, <1>4, <1>5

LEMMA HarmlessApplied ==
  ASSUME DataOK, NEW e \in Harmless, journal' = apply(journal, e)
  PROVE  journal' \in JournalOver(Heads, Tips) /\ SameCore
<1>1. /\ e.rev \in Tips
      /\ e.type \in {"contract_compiled", "candidate_changed", "execution_completed", "external_changed",
                     "pr_observed", "ci_observed"}
  BY DEF Harmless
<1>2. CASE e.type = "contract_compiled"
  <2>1. journal' = [[journal EXCEPT !.contract = TRUE] EXCEPT !.stands = FALSE]
    BY <1>2, Applied
  <2>2. journal' \in JournalOver(Heads, Tips)
    BY <2>1 DEF DataOK, JournalOver
  <2> QED
    BY <2>1, <2>2 DEF DataOK, JournalOver, SameCore
<1>3. CASE e.type = "candidate_changed"
  <2>1. journal' = [journal EXCEPT !.stands = FALSE]
    BY <1>3, Applied
  <2>2. journal' \in JournalOver(Heads, Tips)
    BY <2>1 DEF DataOK, JournalOver
  <2> QED
    BY <2>1, <2>2 DEF DataOK, JournalOver, SameCore
<1>4. CASE e.type = "execution_completed"
  <2>1. journal' = [[journal EXCEPT !.complete = TRUE] EXCEPT !.stands = FALSE]
    BY <1>4, Applied
  <2>2. journal' \in JournalOver(Heads, Tips)
    BY <2>1 DEF DataOK, JournalOver
  <2> QED
    BY <2>1, <2>2 DEF DataOK, JournalOver, SameCore
<1>5. CASE e.type = "external_changed"
  <2>1. journal' = [[journal EXCEPT !.external = e.rev] EXCEPT !.stands = FALSE]
    BY <1>5, Applied
  <2>2. journal' \in JournalOver(Heads, Tips)
    BY <1>1, <2>1 DEF DataOK, JournalOver
  <2> QED
    BY <2>1, <2>2 DEF DataOK, JournalOver, SameCore
<1>6. CASE e.type = "pr_observed"
  <2> DEFINE pr == [head |-> e.rev, merged |-> e.what = "merged"]
  <2>1. journal' = journal \/ journal' = [journal EXCEPT !.pr = pr]
    BY <1>6, Applied
  <2>2. pr \in [head : Tips, merged : BOOLEAN]
    BY <1>1
  <2> HIDE DEF pr
  <2>3. journal' \in JournalOver(Heads, Tips)
    BY <2>1, <2>2 DEF DataOK, JournalOver
  <2> QED
    BY <2>1, <2>3 DEF DataOK, JournalOver, SameCore
<1>7. CASE e.type = "ci_observed"
  <2> DEFINE ci == [head |-> e.rev, failing |-> e.what = "failing"]
  <2>1. journal' = journal \/ journal' = [journal EXCEPT !.ci = ci]
    BY <1>7, Applied
  <2>2. ci \in [head : Tips, failing : BOOLEAN]
    BY <1>1
  <2> HIDE DEF ci
  <2>3. journal' \in JournalOver(Heads, Tips)
    BY <2>1, <2>2 DEF DataOK, JournalOver
  <2> QED
    BY <2>1, <2>3 DEF DataOK, JournalOver, SameCore
<1> QED
  BY <1>1, <1>2, <1>3, <1>4, <1>5, <1>6, <1>7

(* The journal moves on to a newer head. *)
LEMMA HeadApplied ==
  ASSUME DataOK, NEW e, NewHead(e), journal' = apply(journal, e)
  PROVE  /\ journal' \in JournalOver(Heads, Tips) /\ journal'.candidate = e.rev
         /\ journal'.contract = journal.contract /\ journal'.assurance = journal.assurance
         /\ journal'.approvals = journal.approvals
<1>1. e.rev \in Made /\ e.rev \in Heads /\ commits[e.rev].base \in BaseOrNone /\ e.type \in HeadEvents
  BY BaseTyped DEF NewHead, Heads
<1> DEFINE b == commits[e.rev].base
<1>2. \/ journal' = [[journal EXCEPT !.candidate = e.rev, !.complete = TRUE] EXCEPT !.stands = FALSE]
      \/ journal' = [[journal EXCEPT !.candidate = e.rev, !.complete = FALSE] EXCEPT !.stands = FALSE]
      \/ journal' = [[journal EXCEPT !.candidate = e.rev, !.complete = TRUE, !.base = b]
                               EXCEPT !.stands = FALSE]
  <2>1. CASE e.type = "candidate_committed"
    BY <2>1, AppliedHead
  <2>2. CASE e.type = "candidate_checkpointed"
    BY <2>2, AppliedHead
  <2>3. CASE e.type = "base_integrated"
    BY <2>3, AppliedHead
  <2> QED
    BY <1>1, <2>1, <2>2, <2>3, Zenon DEF HeadEvents
<1>3. b \in BaseOrNone
  BY <1>1
<1> HIDE DEF b
<1>4. CASE journal' = [[journal EXCEPT !.candidate = e.rev, !.complete = TRUE] EXCEPT !.stands = FALSE]
  <2>1. journal' \in JournalOver(Heads, Tips)
    BY <1>1, <1>3, <1>4 DEF DataOK, JournalOver
  <2> QED
    BY <1>4, <2>1 DEF DataOK, JournalOver
<1>5. CASE journal' = [[journal EXCEPT !.candidate = e.rev, !.complete = FALSE] EXCEPT !.stands = FALSE]
  <2>1. journal' \in JournalOver(Heads, Tips)
    BY <1>1, <1>3, <1>5 DEF DataOK, JournalOver
  <2> QED
    BY <1>5, <2>1 DEF DataOK, JournalOver
<1>6. CASE journal' = [[journal EXCEPT !.candidate = e.rev, !.complete = TRUE, !.base = b] EXCEPT !.stands = FALSE]
  <2>1. journal' \in JournalOver(Heads, Tips)
    BY <1>1, <1>3, <1>6 DEF DataOK, JournalOver
  <2> QED
    BY <1>6, <2>1 DEF DataOK, JournalOver
<1> QED
  BY <1>2, <1>4, <1>5, <1>6

LEMMA Appended ==
  ASSUME DoingType, AppendEvent
  PROVE  /\ doing'.pc = "append" /\ doing'.key = doing.key /\ doing'.events = Tail(doing.events)
         /\ doing'.after = doing.after /\ doing'.remote = doing.remote /\ doing'.settles = doing.settles
         /\ DOMAIN doing' = DOMAIN Idle
         /\ UNCHANGED <<ops, commits, workspace, forge, faults>> /\ seen' = {}
  BY DoingFields DEF DoingType, AppendEvent

(* What an event leaves to show for an operation that has not ended yet. *)
LEMMA AppendedRest ==
  ASSUME PipelineInv, AppendEvent, journal' \in JournalOver(Heads, Tips), EventsOK',
         doing.key.kind = "assure" =>
           /\ journal'.candidate = journal.candidate /\ journal'.contract /\ journal'.complete
           /\ doing'.events = <<>> => journal'.assurance.commit = doing.key.rev
                                      /\ (journal'.assurance.verdict = "passed" => commits[doing.key.rev].passed),
         doing.key.kind = "authority" =>
           /\ journal'.candidate = journal.candidate /\ journal'.approvals = journal.approvals
           /\ doing'.events = <<>> /\ doing.key.rev \in Gated /\ doing.key.mark = "asked"
                => journal'.decision.status # "authorized"
  PROVE  DataOK' /\ OpsOK' /\ DoingType' /\ HandOK' /\ EndOK'
<1> USE DEF PipelineInv
<1>1. /\ doing'.pc = "append" /\ doing'.key = doing.key /\ doing'.after = doing.after
      /\ doing'.remote = doing.remote /\ doing'.settles = doing.settles
      /\ DOMAIN doing' = DOMAIN Idle
      /\ UNCHANGED <<ops, commits, workspace, forge, faults>> /\ seen' = {}
  BY Appended
<1>2. Heads' = Heads /\ Tips' = Tips /\ Made' = Made /\ OpType' = OpType /\ Keys' = Keys
  BY <1>1 DEF Heads, Tips, Made, OpType, Keys
<1>3. DataOK'
  BY <1>1, <1>2 DEF DataOK
<1>4. OpsOK'
  BY <1>1, <1>2 DEF OpsOK, attemptsFor
<1>5. DoingType'
  BY <1>1, <1>2, SameDomain DEF DoingType
<1>6. HandOK'
  BY <1>1 DEF HandOK
<1>7. /\ doing.key.kind \notin Observations =>
           /\ doing.key \in DOMAIN ops /\ ops[doing.key].state # "succeeded"
           /\ doing.after \in OpType /\ doing.after.attempt <= attemptsFor(doing.key.kind)
      /\ doing.key.kind \in {"assure", "authority"} => OfCandidate(doing.key)
      /\ doing.key.kind = "assure" => doing.key.mark = ""
      /\ doing.key.kind = "authority" => doing.key.mark = "asked" \/ doing.key.rev \in journal.approvals
      /\ doing.key.kind = "create" /\ doing.after.state = "succeeded" => workspace.work # "none"
  BY DEF EndOK, AppendEvent
<1>8. attemptsFor(doing.key.kind)' = attemptsFor(doing.key.kind)
  BY <1>1 DEF attemptsFor
<1>9. doing.key.kind \in {"assure", "authority"} => OfCandidate(doing.key)'
  BY <1>1, <1>7 DEF OfCandidate
<1>10. EndOK'
  BY <1>1, <1>2, <1>7, <1>8, <1>9 DEF EndOK
<1> QED
  BY <1>3, <1>4, <1>5, <1>6, <1>10

LEMMA AppendsHarmless ==
  ASSUME PipelineInv, AppendEvent, doing.events \in Seq(Harmless),
         doing.key.kind \in {"assure", "authority"} => doing.events = <<>>
  PROVE  PipelineInv'
<1> USE DEF PipelineInv
<1>1. doing.events # <<>> /\ journal' = apply(journal, doing.events[1])
  BY DEF AppendEvent
<1>2. doing.events[1] \in Harmless /\ Tail(doing.events) \in Seq(Harmless)
  BY <1>1
<1>3. journal' \in JournalOver(Heads, Tips) /\ SameCore
  BY <1>1, <1>2, HarmlessApplied
<1>4. /\ doing'.key = doing.key /\ doing'.events = Tail(doing.events)
      /\ UNCHANGED <<ops, commits, workspace, forge, faults>> /\ seen' = {}
  BY Appended
<1>5. doing.key.kind \notin {"assure", "authority"}
  BY <1>1
<1>6. EventsOK'
  BY <1>2, <1>4, <1>5, HarmlessEvents DEF DataOK
<1>7. DoingType' /\ HandOK' /\ EndOK'
  BY <1>3, <1>5, <1>6, AppendedRest
<1>8. /\ WorkspaceKept /\ workspace' \in [head : Heads, work : WorkStates]
      /\ faults' \in 0 .. MaxFaults /\ forge' \in ForgeOver(Tips, Made)
  BY <1>4, SameForge DEF WorkspaceKept, DataOK
<1>9. DataOK' /\ OpsOK' /\ WorkspaceOK' /\ JudgedOK' /\ DecidedOK' /\ BranchOK'
  BY <1>3, <1>4, <1>8, RestKeeps
<1> QED
  BY <1>7, <1>9

LEMMA LastEvent ==
  ASSUME PipelineInv, AppendEvent, NEW e, doing.events = <<e>>
  PROVE  /\ journal' = apply(journal, e) /\ doing'.events = <<>> /\ EventsOK'
         /\ doing'.key = doing.key /\ UNCHANGED <<ops, commits, workspace, forge, faults>>
         /\ Made' = Made
<1> USE DEF PipelineInv
<1>1. doing.events[1] = e /\ Tail(doing.events) = <<>>
  OBVIOUS
<1>2. /\ doing'.key = doing.key /\ doing'.events = Tail(doing.events)
      /\ UNCHANGED <<ops, commits, workspace, forge, faults>>
  BY Appended
<1>3. doing'.events = <<>>
  BY <1>1, <1>2
<1>4. doing'.events \in Seq(Harmless)
  BY <1>3
<1>5. EventsOK'
  BY <1>2, <1>3, <1>4, HarmlessEvents DEF DataOK
<1> QED
  BY <1>1, <1>2, <1>3, <1>5 DEF AppendEvent, Made

(* Nothing was judged or decided about a newer head. *)
LEMMA AppendsHead ==
  ASSUME PipelineInv, AppendEvent, NEW e, doing.events = <<e>>, NewHead(e),
         doing.key.kind \in {"commit", "integrate"}
  PROVE  PipelineInv'
<1> USE DEF PipelineInv
<1>1. /\ journal' = apply(journal, e) /\ EventsOK' /\ UNCHANGED <<ops, commits, workspace, forge, faults>>
      /\ Made' = Made
  BY LastEvent
<1>2. /\ journal' \in JournalOver(Heads, Tips) /\ journal'.candidate = e.rev
      /\ journal'.contract = journal.contract /\ journal'.assurance = journal.assurance
      /\ journal'.approvals = journal.approvals
  BY <1>1, HeadApplied
<1>3. DataOK' /\ OpsOK' /\ DoingType' /\ HandOK' /\ EndOK'
  BY <1>1, <1>2, AppendedRest
<1>4. e.rev \in Made /\ e.rev \in Nat /\ e.rev # None /\ e.rev = workspace.head
  BY Numbered, Names DEF NewHead
<1>5. journal.candidate # None => journal.candidate \in Nat /\ journal.candidate < e.rev
  BY Fields, Numbered DEF NewHead
<1>6. WorkspaceOK'
  BY <1>1, <1>2, <1>4 DEF WorkspaceOK
<1>7. journal.assurance.commit # None =>
        journal.assurance.commit \in Nat /\ journal.assurance.commit < e.rev
  <2>1. journal.assurance.commit # None => journal.assurance.commit \in Nat
    BY Fields, Numbered
  <2> QED
    BY <1>4, <1>5, <2>1 DEF JudgedOK
<1>8. \A k \in DOMAIN ops : k.kind \in {"assure", "authority"} => k.rev # None /\ k.rev < e.rev /\ k.rev \in Nat
  <2>1. \A k \in DOMAIN ops : k.rev # None => k.rev \in Nat
    BY Numbered DEF OpsOK, Keys
  <2> QED
    BY <1>4, <1>5, <2>1 DEF JudgedOK
<1>9. JudgedOK'
  <2>1. Done(AssureKey(journal.assurance.commit))' <=> Done(AssureKey(journal.assurance.commit))
    BY <1>1, <1>2 DEF Done, AssureKey, Key
  <2>2. journal.assurance.commit # None =>
          /\ journal.contract /\ journal.assurance.commit <= e.rev /\ journal.assurance.commit # e.rev
          /\ journal.assurance.verdict = "passed" /\ Done(AssureKey(journal.assurance.commit))
               => commits[journal.assurance.commit].passed
    BY <1>4, <1>7 DEF JudgedOK
  <2>3. \A k \in DOMAIN ops : k.kind \in {"assure", "authority"} => k.rev # None /\ k.rev <= e.rev
    BY <1>4, <1>8
  <2> QED
    BY <1>1, <1>2, <1>4, <2>1, <2>2, <2>3 DEF JudgedOK
<1>10. DecidedOK'
  <2> DEFINE a == Key("authority", e.rev, "asked")
  <2>1. a.kind = "authority" /\ a.rev = e.rev
    BY KeyFields
  <2>2. a \notin DOMAIN ops
    BY <1>4, <1>8, <2>1
  <2>3. Key("authority", journal.candidate, "asked")' = a
    BY <1>2 DEF Key
  <2>4. ~Done(Key("authority", journal.candidate, "asked"))'
    BY <1>1, <2>2, <2>3 DEF Done
  <2> QED
    BY <2>4 DEF DecidedOK
<1>11. BranchOK'
  BY <1>1, <1>2 DEF BranchOK, Proved, Done, AssureKey, Key
<1> QED
  BY <1>3, <1>6, <1>9, <1>10, <1>11

(* A verdict is about the candidate, and complete. *)
LEMMA AppendsVerdict ==
  ASSUME PipelineInv, AppendEvent, NEW e \in [type : AllEvents, rev : Tips, what : Details],
         doing.events = <<e>>, NewVerdict(e), doing.key.kind = "assure"
  PROVE  PipelineInv'
<1> USE DEF PipelineInv
<1>1. /\ journal' = apply(journal, e) /\ EventsOK' /\ UNCHANGED <<ops, commits, workspace, forge, faults>>
      /\ Made' = Made /\ doing'.events = <<>>
  BY LastEvent
<1>2. OfCandidate(doing.key) /\ journal.contract /\ journal.complete
  BY DEF EndOK, AppendEvent
<1>3. /\ e.type = "assurance_observed" /\ e.rev = journal.candidate /\ journal.candidate # None
      /\ e.rev = doing.key.rev /\ e.what \in Verdicts /\ (e.what = "passed" => commits[e.rev].passed)
  BY <1>2 DEF NewVerdict, OfCandidate
<1>4. e.rev = HeadOf(journal)
  BY <1>3 DEF HeadOf
<1> DEFINE a == [commit |-> e.rev, verdict |-> e.what]
<1>5. journal' = [[journal EXCEPT !.assurance = a] EXCEPT !.stands = FALSE]
  BY <1>1, <1>3, <1>4, AppliedHead
<1>6. a \in [commit : Heads, verdict : Verdicts] /\ a.commit = e.rev /\ a.verdict = e.what
  BY <1>3, Fields
<1> HIDE DEF a
<1>7. journal' \in JournalOver(Heads, Tips)
  BY <1>5, <1>6 DEF DataOK, JournalOver
<1>8. /\ journal'.candidate = journal.candidate /\ journal'.contract = journal.contract
      /\ journal'.complete = journal.complete /\ journal'.assurance = a
      /\ journal'.approvals = journal.approvals /\ journal'.decision = journal.decision
  BY <1>5 DEF DataOK, JournalOver
<1>9. journal'.assurance.commit = e.rev /\ journal'.assurance.verdict = e.what
  BY <1>6, <1>8
<1>10. DataOK' /\ OpsOK' /\ DoingType' /\ HandOK' /\ EndOK'
  BY <1>1, <1>2, <1>3, <1>7, <1>8, <1>9, AppendedRest
<1>11. WorkspaceOK'
  BY <1>1, <1>8 DEF WorkspaceOK
<1>12. JudgedOK'
  <2>1. journal.candidate \in Nat
    BY <1>3, Fields, Numbered
  <2>2. journal'.assurance.commit <= journal'.candidate
    <3>1. journal'.assurance.commit = journal.candidate /\ journal'.candidate = journal.candidate
      BY <1>3, <1>8, <1>9
    <3>2. journal.candidate <= journal.candidate
      BY <2>1
    <3> QED
      BY <3>1, <3>2
  <2>3. journal'.assurance.verdict = "passed" => commits'[journal'.assurance.commit].passed
    BY <1>1, <1>3, <1>9
  <2>4. ops' = ops
    BY <1>1
  <2> QED
    BY <1>2, <1>3, <1>8, <2>2, <2>3, <2>4 DEF JudgedOK
<1>13. DecidedOK'
  BY <1>1, <1>8 DEF DecidedOK, Done, Key
<1>14. BranchOK'
  BY <1>1, <1>8 DEF BranchOK, Proved, Done, AssureKey, Key
<1> QED
  BY <1>10, <1>11, <1>12, <1>13, <1>14

(* A decision that a human has to take authorises nothing without one. *)
LEMMA AppendsDecision ==
  ASSUME PipelineInv, AppendEvent, NEW e \in [type : AllEvents, rev : Tips, what : Details],
         doing.events = <<e>>, NewDecision(e), doing.key.kind = "authority"
  PROVE  PipelineInv'
<1> USE DEF PipelineInv
<1>1. /\ journal' = apply(journal, e) /\ EventsOK' /\ UNCHANGED <<ops, commits, workspace, forge, faults>>
      /\ Made' = Made /\ doing'.events = <<>>
  BY LastEvent
<1>2. /\ doing.key.rev = journal.candidate
      /\ doing.key.mark = "asked" \/ doing.key.rev \in journal.approvals
  BY DEF EndOK, AppendEvent, OfCandidate
<1>3. /\ e.type = "authority_evaluated" /\ e.what \in Statuses
      /\ doing.key.rev \in Gated /\ doing.key.mark = "asked" => e.what # "authorized"
  BY DEF NewDecision
<1> DEFINE d == [status |-> e.what, answer |-> None]
<1>4. journal' = [[journal EXCEPT !.decision = d] EXCEPT !.stands = FALSE]
  BY <1>1, <1>3, AppliedHead
<1>5. d \in [status : Statuses, answer : Heads] /\ d.status = e.what
  BY <1>3 DEF Heads
<1> HIDE DEF d
<1>6. journal' \in JournalOver(Heads, Tips)
  BY <1>4, <1>5 DEF DataOK, JournalOver
<1>7. /\ journal'.candidate = journal.candidate /\ journal'.contract = journal.contract
      /\ journal'.complete = journal.complete /\ journal'.assurance = journal.assurance
      /\ journal'.approvals = journal.approvals /\ journal'.decision = d
  BY <1>4 DEF DataOK, JournalOver
<1>8. journal'.decision.status = e.what
  BY <1>5, <1>7
<1>9. DataOK' /\ OpsOK' /\ DoingType' /\ HandOK' /\ EndOK'
  BY <1>1, <1>3, <1>6, <1>7, <1>8, AppendedRest
<1>10. WorkspaceOK'
  BY <1>1, <1>7 DEF WorkspaceOK
<1>11. JudgedOK'
  BY <1>1, <1>7 DEF JudgedOK, Done, AssureKey, Key
<1>12. DecidedOK'
  BY <1>2, <1>3, <1>7, <1>8 DEF DecidedOK
<1>13. BranchOK'
  BY <1>1, <1>7 DEF BranchOK, Proved, Done, AssureKey, Key
<1> QED
  BY <1>9, <1>10, <1>11, <1>12, <1>13

LEMMA KeepsAppend ==
  ASSUME PipelineInv, AppendEvent
  PROVE  PipelineInv'
<1>1. EventsOK
  BY DEF PipelineInv, EndOK, AppendEvent
<1> QED
  BY <1>1, AppendsHarmless, AppendsHead, AppendsVerdict, AppendsDecision DEF EventsOK

-----------------------------------------------------------------------------
(* The theorems.                                                            *)

LEMMA InitInv ==
  ASSUME Init
  PROVE  PipelineInv
<1>1. journal = Empty /\ seen = {} /\ ops = <<>> /\ commits = <<>> /\ doing = Idle /\ faults = 0
      /\ workspace = [head |-> None, work |-> "none"]
      /\ forge = [base |-> 1, branch |-> None, own |-> 0, theirs |-> 0, merged |-> FALSE, failing |-> {}]
  BY DEF Init
<1>2. DOMAIN ops = {} /\ Made = {} /\ Heads = {None} /\ Tips = {None, Foreign}
  BY <1>1 DEF Made, Heads, Tips
<1>3. journal \in JournalOver(Heads, Tips)
  <2>1. Unpublished \in [head : Tips, merged : BOOLEAN]
    BY <1>2 DEF Unpublished
  <2>2. [commit |-> None, verdict |-> "none"] \in [commit : Heads, verdict : Verdicts]
    BY <1>2 DEF Verdicts
  <2>3. [status |-> "none", answer |-> None] \in [status : Statuses, answer : Heads]
    BY <1>2 DEF Statuses
  <2>4. [head |-> None, failing |-> FALSE] \in [head : Tips, failing : BOOLEAN]
    BY <1>2
  <2>5. None \in BaseOrNone /\ "none" \in Reasons /\ {} \in SUBSET Gated /\ None \in Heads /\ None \in Tips
    BY <1>2 DEF BaseOrNone, Reasons
  <2> QED
    BY <1>1, <2>1, <2>2, <2>3, <2>4, <2>5 DEF Empty, JournalOver
<1>4. commits \in Seq(Commits) /\ Len(commits) = 0
  BY <1>1
<1>5. DataOK
  BY <1>1, <1>2, <1>3, <1>4, Names DEF DataOK, WorkStates, Bases
<1>6. OpsOK
  BY <1>2, FS_EmptySet DEF OpsOK
<1>7. journal.candidate = None /\ journal.assurance.commit = None /\ journal.decision.status = "none"
  BY <1>1 DEF Empty
<1>8. WorkspaceOK /\ JudgedOK /\ DecidedOK /\ BranchOK
  BY <1>2, <1>7 DEF WorkspaceOK, JudgedOK, DecidedOK, BranchOK
<1>9. doing.pc = "idle" /\ doing.remote = None /\ doing.settles = "none"
  BY <1>1 DEF Idle
<1>10. DoingType
  BY <1>1, <1>2, <1>9 DEF DoingType
<1>11. HandOK /\ EndOK
  BY <1>9 DEF HandOK, EndOK
<1> QED
  BY <1>5, <1>6, <1>8, <1>10, <1>11 DEF PipelineInv

LEMMA KeepsPass ==
  ASSUME PipelineInv, Pass
  PROVE  PipelineInv'
<1>1. CASE Ends(plan)
  BY <1>1, KeepsEnd DEF Ends
<1>2. CASE Settles(plan)
  <2>1. PICK reason \in Reasons : settle(reason)
    BY <1>2, WaitReason DEF Settles, Reasons
  <2> QED
    BY <2>1, KeepsSettle
<1>3. CASE Start(plan)
  BY <1>3, KeepsStart
<1>4. CASE observeSource(plan)
  BY <1>4, KeepsObserveSource DEF Pass
<1>5. CASE observeGitHub(plan)
  BY <1>5, KeepsObserveGitHub DEF Pass
<1> QED
  BY <1>1, <1>2, <1>3, <1>4, <1>5 DEF Pass

LEMMA NextInv ==
  ASSUME PipelineInv, [Next]_vars
  PROVE  PipelineInv'
<1>1. CASE Pass
  BY <1>1, KeepsPass
<1>2. CASE SettleAfter
  <2>1. doing.settles \in Reasons /\ settle(doing.settles)
    BY <1>2 DEF SettleAfter, PipelineInv, DoingType, Reasons
  <2> QED
    BY <2>1, KeepsSettle
<1>3. CASE UNCHANGED vars
  <2>1. /\ UNCHANGED <<journal, seen, ops, commits, workspace, forge, doing, faults>>
    BY <1>3 DEF vars
  <2>2. SameCore /\ WorkspaceKept
    BY <2>1 DEF SameCore, WorkspaceKept
  <2>3. /\ workspace' \in [head : Heads, work : WorkStates]
        /\ faults' \in 0 .. MaxFaults /\ forge' \in ForgeOver(Tips, Made)
        /\ journal' \in JournalOver(Heads, Tips) /\ seen' \subseteq Observations
    BY <2>1, SameForge DEF PipelineInv, DataOK
  <2>4. DataOK' /\ OpsOK' /\ WorkspaceOK' /\ JudgedOK' /\ DecidedOK' /\ BranchOK'
    BY <2>1, <2>2, <2>3, RestKeeps
  <2>5. DoingType' /\ HandOK' /\ EndOK'
    BY <2>1, <2>2, DoingKept
  <2> QED
    BY <2>4, <2>5 DEF PipelineInv
<1>4. CASE BaseMoves \/ ForeignPush \/ OpensPullRequest \/ Merges \/ ChecksFail
  BY <1>4, KeepsWorld
<1>5. CASE AppendEvent
  BY <1>5, KeepsAppend
<1>6. CASE Finish
  BY <1>6, KeepsFinish
<1>7. CASE compileContract \/ createCandidate \/ invokeExecution \/ commitCandidate
  BY <1>7, KeepsCompile, KeepsCreateCandidate, KeepsInvoke, KeepsCommit
<1>8. CASE assureCandidate \/ integrateBase \/ evaluateAuthority \/ readRemote
  BY <1>8, KeepsAssure, KeepsIntegrate, KeepsAuthority, KeepsReadRemote
<1>9. CASE pushCandidate \/ findPullRequests \/ createPullRequest \/ updatePullRequest \/ HandlerFails
  BY <1>9, KeepsPush, KeepsFindPullRequests, KeepsCreatePullRequest, KeepsUpdatePullRequest, KeepsHandlerFails
<1>10. CASE Crash \/ Authorize
  BY <1>10, KeepsCrash, KeepsAuthorize
<1> QED
  BY <1>1, <1>2, <1>3, <1>4, <1>5, <1>6, <1>7, <1>8, <1>9, <1>10 DEF Next, Driver

(* The inductive invariant of a run's way to its pull request: what the     *)
(* journal, the operations and the driver's record say about the commits    *)
(* agrees after every step, crashes and everybody else's steps included.    *)
THEOREM PipelineInvAlways == Spec => []PipelineInv
<1>1. Init => PipelineInv
  BY InitInv
<1>2. PipelineInv /\ [Next]_vars => PipelineInv'
  BY NextInv
<1> QED
  BY <1>1, <1>2, PTL DEF Spec

(* Revisions are commits that were made, answers are for revisions that     *)
(* need one, and no operation starts more often than its attempts allow.    *)
THEOREM PipelineTypeCorrect == Spec => []TypeOK
<1>1. PipelineInv => TypeOK
  <2>1. SUFFICES ASSUME PipelineInv
                 PROVE  TypeOK
    OBVIOUS
  <2>2. journal.candidate \in Heads /\ journal.external \in Tips /\ journal.approvals \subseteq Gated
    BY <2>1, Fields DEF PipelineInv
  <2>3. workspace.head \in Heads /\ forge.branch \in Tips
    BY <2>1 DEF PipelineInv, DataOK
  <2> QED
    BY <2>1, <2>2, <2>3 DEF PipelineInv, DataOK, OpsOK, TypeOK, Heads, Tips
<1> QED
  BY <1>1, PipelineInvAlways, PTL

(* What the runtime pushed passed the verifier and was approved as exactly  *)
(* that commit.                                                             *)
THEOREM PushedWasProvedAlways == Spec => []PushedWasProved
<1>1. PipelineInv => PushedWasProved
  BY DEF PipelineInv, BranchOK, Proved, PushedWasProved
<1> QED
  BY <1>1, PipelineInvAlways, PTL

(* What a search that found nothing said still holds of the runtime's own   *)
(* pull requests when it opens one: only the runtime opens those.           *)
OpeningOK == forge.own <= 1 /\ (doing.pc = "open" => forge.own = 0)

(* A step that opens none and is not a search keeps it. *)
LEMMA OpeningKept ==
  ASSUME OpeningOK, forge'.own = forge.own, doing'.pc = "open" => doing.pc = "open"
  PROVE  OpeningOK'
  BY DEF OpeningOK

LEMMA NextOpening ==
  ASSUME PipelineInv, OpeningOK, [Next]_vars
  PROVE  OpeningOK'
<1>1. forge \in ForgeOver(Tips, Made) /\ DoingType
  BY SameForge DEF PipelineInv
<1>2. \A events, after, settles : Produce(events, after, settles) => doing'.pc = "append"
  BY <1>1, Produced
<1>3. Idle.pc = "idle"
  BY DEF Idle
<1>4. CASE createPullRequest
  <2>1. doing'.pc = "append" /\ forge.own = 0
    BY <1>2, <1>4 DEF createPullRequest, OpeningOK
  <2>2. forge'.own \in {0, 1}
    BY <1>1, <1>4, <2>1 DEF createPullRequest, ForgeOver
  <2> QED
    BY <2>1, <2>2 DEF OpeningOK
<1>5. CASE findPullRequests
  <2>1. forge' = forge
    BY <1>5 DEF findPullRequests
  <2>2. doing'.pc = "append" \/ forge.own + forge.theirs = 0
    BY <1>2, <1>5 DEF findPullRequests, FindPullRequests
  <2>3. forge.own + forge.theirs = 0 => forge.own = 0
    BY <1>1 DEF ForgeOver
  <2> QED
    BY <2>1, <2>2, <2>3 DEF OpeningOK
<1>6. CASE BaseMoves \/ ForeignPush \/ OpensPullRequest \/ Merges \/ ChecksFail
  <2>1. doing' = doing /\ forge'.own = forge.own
    BY <1>1, <1>6 DEF BaseMoves, ForeignPush, OpensPullRequest, Merges, ChecksFail, ForgeOver
  <2> QED
    BY <2>1, OpeningKept
<1>7. CASE pushCandidate
  <2>1. forge'.own = forge.own /\ doing'.pc = "append"
    BY <1>1, <1>2, <1>7 DEF pushCandidate, ForgeOver
  <2> QED
    BY <2>1, OpeningKept
<1>8. CASE Pass
  <2>1. forge' = forge
    BY <1>8 DEF Pass, Ends, End, Settles, settle, Start, observeSource, observeGitHub
  <2>2. CASE Ends(plan) \/ Settles(plan)
    <3>1. doing' = Idle
      BY <2>2 DEF Ends, End, Settles, settle
    <3> QED
      BY <1>3, <2>1, <3>1, OpeningKept
  <2>3. CASE Start(plan)
    <3>1. doing'.pc = "handle"
      BY <1>1, <2>3, DoingFields DEF Start, DoingType
    <3> QED
      BY <2>1, <3>1, OpeningKept
  <2>4. CASE observeSource(plan)
    BY <2>1, <2>4, OpeningKept DEF observeSource
  <2>5. CASE observeGitHub(plan)
    <3>1. doing'.pc = "append"
      BY <1>1, <2>5, DoingFields DEF observeGitHub, DoingType
    <3> QED
      BY <2>1, <3>1, OpeningKept
  <2> QED
    BY <1>8, <2>2, <2>3, <2>4, <2>5 DEF Pass
<1>9. CASE AppendEvent \/ Authorize
  <2>1. forge' = forge /\ doing'.pc = doing.pc
    BY <1>1, <1>9, DoingFields DEF AppendEvent, Authorize, DoingType
  <2> QED
    BY <2>1, OpeningKept
<1>10. CASE Finish
  <2>1. forge' = forge /\ doing'.pc \in {"idle", "settle"}
    BY <1>1, <1>10, DoingFields DEF Finish, DoingType, Idle
  <2> QED
    BY <2>1, OpeningKept
<1>11. CASE SettleAfter \/ Crash
  <2>1. forge' = forge /\ doing'.pc = "idle"
    BY <1>3, <1>11 DEF SettleAfter, settle, Crash
  <2> QED
    BY <2>1, OpeningKept
<1>12. CASE compileContract \/ createCandidate \/ invokeExecution \/ commitCandidate
  <2>1. forge' = forge /\ doing'.pc = "append"
    BY <1>2, <1>12 DEF compileContract, createCandidate, invokeExecution, commitCandidate
  <2> QED
    BY <2>1, OpeningKept
<1>13. CASE assureCandidate \/ integrateBase \/ evaluateAuthority \/ updatePullRequest \/ HandlerFails
  <2>1. forge' = forge /\ doing'.pc = "append"
    BY <1>2, <1>13 DEF assureCandidate, integrateBase, evaluateAuthority, updatePullRequest, HandlerFails
  <2> QED
    BY <2>1, OpeningKept
<1>14. CASE readRemote
  <2>1. forge' = forge /\ doing'.pc = "push"
    BY <1>1, <1>14, DoingFields DEF readRemote, DoingType
  <2> QED
    BY <2>1, OpeningKept
<1>15. CASE UNCHANGED vars
  BY <1>15, OpeningKept DEF vars
<1> QED
  BY <1>4, <1>5, <1>6, <1>7, <1>8, <1>9, <1>10, <1>11, <1>12, <1>13, <1>14, <1>15 DEF Next, Driver

(* The runtime opens one pull request for a run, whatever is lost, retried  *)
(* or opened by others between the search and the opening.                  *)
THEOREM OnePullRequestAlways == Spec => []OnePullRequest
<1>1. Init => OpeningOK
  BY DEF Init, OpeningOK, Idle
<1>2. OpeningOK => OnePullRequest
  BY DEF OpeningOK, OnePullRequest
<1>3. PipelineInv /\ OpeningOK /\ [Next]_vars => OpeningOK'
  BY NextOpening
<1> QED
  BY <1>1, <1>2, <1>3, PipelineInvAlways, PTL DEF Spec

(* The run's branch only ever moves forward by the runtime's hand, and a    *)
(* head somebody else pushed is never replaced.                             *)
THEOREM HistoryKeptAlways == Spec => HistoryKept
<1> DEFINE Moved == forge'.branch # forge.branch /\ forge'.branch # Foreign
                      => FastForward(forge.branch, forge'.branch)
<1>1. PipelineInv /\ [Next]_vars => [Moved]_forge
  <2>1. SUFFICES ASSUME PipelineInv, [Next]_vars, forge' # forge
                 PROVE  Moved
    OBVIOUS
  <2>2. forge \in ForgeOver(Tips, Made)
    BY <2>1, SameForge DEF PipelineInv
  <2>3. CASE BaseMoves \/ OpensPullRequest \/ Merges \/ ChecksFail \/ createPullRequest
    <3>1. forge'.branch = forge.branch
      BY <2>2, <2>3 DEF BaseMoves, OpensPullRequest, Merges, ChecksFail, createPullRequest, ForgeOver
    <3> QED
      BY <3>1
  <2>4. CASE ForeignPush
    <3>1. forge'.branch = Foreign
      BY <2>2, <2>4 DEF ForeignPush, ForgeOver
    <3> QED
      BY <3>1
  <2>5. CASE pushCandidate
    <3>1. /\ forge' = [forge EXCEPT !.branch = journal.candidate]
          /\ FastForward(forge.branch, journal.candidate)
      BY <2>1, <2>5 DEF pushCandidate
    <3>2. forge'.branch = journal.candidate
      BY <2>2, <3>1 DEF ForgeOver
    <3> QED
      BY <3>1, <3>2
  <2>6. BaseMoves \/ OpensPullRequest \/ Merges \/ ChecksFail \/ createPullRequest \/ ForeignPush \/ pushCandidate
    <3>1. ~Pass
      <4>1. Pass => forge' = forge
        BY DEF Pass, Ends, End, Settles, settle, Start, observeSource, observeGitHub
      <4> QED
        BY <2>1, <4>1
    <3>2. ~(AppendEvent \/ Finish \/ SettleAfter)
      BY <2>1 DEF AppendEvent, Finish, SettleAfter, settle
    <3>3. ~(compileContract \/ createCandidate \/ invokeExecution \/ commitCandidate \/ assureCandidate)
      BY <2>1 DEF compileContract, createCandidate, invokeExecution, commitCandidate, assureCandidate
    <3>4. ~(integrateBase \/ evaluateAuthority \/ readRemote \/ findPullRequests \/ updatePullRequest \/ HandlerFails)
      BY <2>1 DEF integrateBase, evaluateAuthority, readRemote, findPullRequests, updatePullRequest, HandlerFails
    <3>5. ~(Crash \/ Authorize \/ UNCHANGED vars)
      BY <2>1 DEF Crash, Authorize, vars
    <3> QED
      BY <2>1, <3>1, <3>2, <3>3, <3>4, <3>5 DEF Next, Driver
  <2> QED
    BY <2>3, <2>4, <2>5, <2>6
<1> QED
  BY <1>1, PipelineInvAlways, PTL DEF Spec, HistoryKept
=============================================================================
