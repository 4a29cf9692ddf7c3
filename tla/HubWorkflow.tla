----------------------------- MODULE HubWorkflow -----------------------------
(***************************************************************************)
(* HubService over the store: the handlers that start an evaluation,       *)
(* request a promotion and approve one are sequences of store calls with a *)
(* job launch between them, and the App runs each request in a thread of   *)
(* its own. One action is one call of the store or of the job runner;      *)
(* other requests may run between any two of them.                         *)
(*                                                                         *)
(* A handler that is refused ends without effect (the exception becomes an *)
(* HTTP error). Registration, rejection and the request for changes make a *)
(* single store call and need no thread. Checks of the caller's visibility *)
(* and roles other than PLATFORM_ADMINISTRATOR are left out, as are those  *)
(* of the manifest (job identifiers, declared environments).               *)
(***************************************************************************)
EXTENDS HubRepository

CONSTANTS
    Threads,        \* handlers in progress at the same time
    ReadyDecisions, \* decision signatures whose blocking rules all passed
    Failures        \* whether the store may become unavailable under a handler

ASSUME ReadyDecisionsAssumption == ReadyDecisions \subseteq Decisions
ASSUME FailuresAssumption == Failures \in BOOLEAN

VARIABLES
    work,     \* Threads -> the step a handler is at, with its locals
    results,  \* RecordingJobRunner: idempotency token -> run id
    readiness \* VersionIds -> what readiness_for_version would decide now

workflow_vars == <<store_vars, work, results, readiness>>

-----------------------------------------------------------------------------
(* Handlers *)

Idle == [at |-> "idle"]

\* What each handler holds before its next call.
CreateEvaluationWork ==
    [at : {"create evaluation"}, app : AppIds, env : Environments, vid : VersionIds]
LaunchEvaluationWork == [at : {"launch evaluation"}, eid : EvaluationIds]
RecordEvaluationWork ==
    [at : {"record evaluation"}, eid : EvaluationIds, status : {"QUEUED", "FAILED"},
     run : JobRunIds \cup {None}]
AssessRequestWork ==
    [at : {"assess request"}, app : AppIds, source : Environments,
     target : Environments, vid : VersionIds, requester : Principals]
CreatePromotionWork ==
    [at : {"create promotion"}, app : AppIds, source : Environments,
     target : Environments, vid : VersionIds, requester : Principals,
     snapshot : Snapshot]
ReviewWork ==
    [at : {"check source", "assess approval", "resubmit"}, pid : PromotionIds,
     actor : Principals, expected : RowVersions, current : Promotion]
ApproveWork ==
    [at : {"approve"}, pid : PromotionIds, actor : Principals,
     expected : RowVersions, snapshot : Snapshot]
LaunchPromotionWork ==
    [at : {"launch promotion"}, pid : PromotionIds, actor : Principals,
     row_version : RowVersions]
RecordPromotionWork ==
    [at : {"record promotion"}, pid : PromotionIds, actor : Principals,
     row_version : RowVersions, status : {"EXECUTING", "FAILED"},
     run : JobRunIds \cup {None}]

Work == {Idle} \cup CreateEvaluationWork \cup LaunchEvaluationWork
        \cup RecordEvaluationWork \cup AssessRequestWork \cup CreatePromotionWork
        \cup ReviewWork \cup ApproveWork \cup LaunchPromotionWork
        \cup RecordPromotionWork

\* The handler goes on to its next call, or ends.
Continue(t, next) == work' = [work EXCEPT ![t] = next]
End(t) == Continue(t, Idle)

\* _select_current_version: of the versions flagged current.
FlaggedCurrent(app, env) ==
    {v \in DOMAIN versions : /\ versions[v].application_id = app
                             /\ versions[v].environment = env
                             /\ versions[v].is_current}

SnapshotNow(vid) ==
    [application_version_id |-> vid, ready |-> readiness[vid] \in ReadyDecisions,
     decision |-> readiness[vid]]

\* Seeded fault: the token names the workflow only.
TokenOfWorkflow(workflow, id) == <<workflow, None>>

\* _job_token: names the workflow as well as the record.
Token(workflow, id) == <<workflow, id>>

Tokens == ({"evaluation"} \X EvaluationIds) \cup ({"promotion"} \X PromotionIds)

\* RecordingJobRunner.launch: a token seen before is answered with its run. All
\* launches of one token carry the same request, so the conflict cannot arise.
Launch(token, run) ==
    \/ /\ token \in DOMAIN results
       /\ run = results[token]
       /\ UNCHANGED results
    \/ /\ token \notin DOMAIN results
       /\ run \notin {results[other] : other \in DOMAIN results}
       /\ results' = Put(results, token, run)

-----------------------------------------------------------------------------
(* start_evaluation *)

StartEvaluation(t, app, env) ==
    /\ work[t] = Idle
    /\ \E vid \in FlaggedCurrent(app, env) :
           Continue(t, [at |-> "create evaluation", app |-> app, env |-> env, vid |-> vid])
    /\ UNCHANGED <<store_vars, results, readiness>>

\* The store accepts the new identifier, or refuses an active duplicate.
CallCreateEvaluation(t) ==
    /\ work[t].at = "create evaluation"
    /\ \/ \E eid \in EvaluationIds, now \in Times :
              /\ CreateEvaluation(eid, work[t].app, work[t].env, work[t].vid, now)
              /\ Continue(t, [at |-> "launch evaluation", eid |-> eid])
       \/ /\ ~ NoActiveEvaluation(work[t].app, work[t].env, work[t].vid)
          /\ End(t)
          /\ UNCHANGED store_vars
    /\ UNCHANGED <<results, readiness>>

\* Seeded fault: the failed launch is reported before it is recorded.
RaiseOnFailedLaunch(t) ==
    /\ work[t].at = "launch evaluation"
    /\ \/ \E run \in JobRunIds :
              /\ Launch(Token("evaluation", work[t].eid), run)
              /\ Continue(t, [at |-> "record evaluation", eid |-> work[t].eid,
                              status |-> "QUEUED", run |-> run])
       \/ End(t) /\ UNCHANGED results
    /\ UNCHANGED <<store_vars, readiness>>

\* A runner that raises JobExecutionError has launched nothing.
LaunchEvaluation(t) ==
    /\ work[t].at = "launch evaluation"
    /\ \/ \E run \in JobRunIds :
              /\ Launch(Token("evaluation", work[t].eid), run)
              /\ Continue(t, [at |-> "record evaluation", eid |-> work[t].eid,
                              status |-> "QUEUED", run |-> run])
       \/ /\ Continue(t, [at |-> "record evaluation", eid |-> work[t].eid,
                          status |-> "FAILED", run |-> None])
          /\ UNCHANGED results
    /\ UNCHANGED <<store_vars, readiness>>

\* Seeded fault: only a successful launch is recorded.
RecordLaunchedEvaluation(t) ==
    /\ work[t].at = "record evaluation"
    /\ IF work[t].status = "QUEUED"
       THEN UpdateEvaluation(work[t].eid, 1, "QUEUED", work[t].run, None)
       ELSE UNCHANGED store_vars
    /\ End(t)
    /\ UNCHANGED <<results, readiness>>

\* Against the row version it was created with: 1.
CallUpdateEvaluation(t) ==
    /\ work[t].at = "record evaluation"
    /\ \/ UpdateEvaluation(work[t].eid, 1, work[t].status, work[t].run, None)
       \/ /\ ~ RowVersionMatches(evaluations[work[t].eid].row_version, 1)
          /\ UNCHANGED store_vars
    /\ End(t)
    /\ UNCHANGED <<results, readiness>>

-----------------------------------------------------------------------------
(* request_promotion *)

StartRequest(t, app, source, target, requester) ==
    /\ work[t] = Idle
    /\ source # target
    /\ \E vid \in FlaggedCurrent(app, source) :
           Continue(t, [at |-> "assess request", app |-> app, source |-> source,
                        target |-> target, vid |-> vid, requester |-> requester])
    /\ UNCHANGED <<store_vars, results, readiness>>

\* readiness_for_version; blocked evidence ends the request.
AssessRequest(t) ==
    /\ work[t].at = "assess request"
    /\ LET w == work[t]
           snapshot == SnapshotNow(w.vid)
       IN  IF snapshot.ready
           THEN Continue(t, [at |-> "create promotion", app |-> w.app,
                             source |-> w.source, target |-> w.target, vid |-> w.vid,
                             requester |-> w.requester, snapshot |-> snapshot])
           ELSE End(t)
    /\ UNCHANGED <<store_vars, results, readiness>>

CallCreatePromotion(t) ==
    /\ work[t].at = "create promotion"
    /\ LET w == work[t]
       IN  \/ \E pid \in PromotionIds :
                  CreatePromotionRequest(pid, w.app, w.source, w.target, w.vid,
                                         w.requester, w.snapshot)
           \/ /\ ~ NoActivePromotion(w.app, w.vid, w.target)
              /\ UNCHANGED store_vars
    /\ End(t)
    /\ UNCHANGED <<results, readiness>>

-----------------------------------------------------------------------------
(* approve_promotion *)

\* get_promotion_request; expected is the row version the administrator saw.
StartApproval(t, pid, actor, expected) ==
    /\ work[t] = Idle
    /\ actor \in Administrators
    /\ pid \in DOMAIN promotions
    /\ Continue(t, [at |-> "check source", pid |-> pid, actor |-> actor,
                    expected |-> expected, current |-> promotions[pid]])
    /\ UNCHANGED <<store_vars, results, readiness>>

\* get_current_version: a newer version of the source ends the approval.
CheckSource(t) ==
    /\ work[t].at = "check source"
    /\ LET current == work[t].current
           pointer == <<current.application_id, current.source_environment>>
       IN  IF current_versions[pointer] = current.application_version_id
           THEN Continue(t, [work[t] EXCEPT !.at = "assess approval"])
           ELSE End(t)
    /\ UNCHANGED <<store_vars, results, readiness>>

\* Seeded fault: ready evidence is accepted whatever it was at the request.
ReadyIsEnough(requested, snapshot) == TRUE

\* The decision signatures must agree.
SameEvidence(requested, snapshot) == requested.decision = snapshot.decision

\* readiness_for_version; ready evidence that changed asks for a new request.
AssessApproval(t) ==
    /\ work[t].at = "assess approval"
    /\ LET w == work[t]
           snapshot == SnapshotNow(w.current.application_version_id)
       IN  \/ /\ ~ snapshot.ready
              /\ End(t)
           \/ /\ snapshot.ready
              /\ ~ SameEvidence(w.current.readiness_snapshot, snapshot)
              /\ Continue(t, [w EXCEPT !.at = "resubmit"])
           \/ /\ snapshot.ready
              /\ SameEvidence(w.current.readiness_snapshot, snapshot)
              /\ Continue(t, [at |-> "approve", pid |-> w.pid, actor |-> w.actor,
                              expected |-> w.expected, snapshot |-> snapshot])
    /\ UNCHANGED <<store_vars, results, readiness>>

\* The administrator is told to have a new request submitted.
AnswerResubmit(t) ==
    /\ work[t].at = "resubmit"
    /\ End(t)
    /\ UNCHANGED <<store_vars, results, readiness>>

\* Refused when the row version is stale, the review is over or the
\* administrator is the requester.
CallApprovePromotion(t) ==
    /\ work[t].at = "approve"
    /\ LET w == work[t]
       IN  \/ /\ ApprovePromotion(w.pid, w.actor, w.expected, w.snapshot)
              /\ Continue(t, [at |-> "launch promotion", pid |-> w.pid,
                              actor |-> w.actor, row_version |-> w.expected + 1])
           \/ /\ \/ ~ Reviewable(w.pid, w.actor, w.expected)
                 \/ ~ DifferentPrincipals(promotions[w.pid].requested_by, w.actor)
              /\ End(t)
              /\ UNCHANGED store_vars
    /\ UNCHANGED <<results, readiness>>

\* Seeded fault: a launch that may have failed is recorded as started.
LaunchOptimistically(t) ==
    /\ work[t].at = "launch promotion"
    /\ LET w == work[t]
       IN  \E run \in JobRunIds :
               /\ Launch(Token("promotion", w.pid), run) \/ UNCHANGED results
               /\ Continue(t, [at |-> "record promotion", pid |-> w.pid,
                               actor |-> w.actor, row_version |-> w.row_version,
                               status |-> "EXECUTING", run |-> run])
    /\ UNCHANGED <<store_vars, readiness>>

LaunchPromotion(t) ==
    /\ work[t].at = "launch promotion"
    /\ LET w == work[t]
           record(status, run) ==
               [at |-> "record promotion", pid |-> w.pid, actor |-> w.actor,
                row_version |-> w.row_version, status |-> status, run |-> run]
       IN  \/ \E run \in JobRunIds :
                  /\ Launch(Token("promotion", w.pid), run)
                  /\ Continue(t, record("EXECUTING", run))
           \/ /\ Continue(t, record("FAILED", None))
              /\ UNCHANGED results
    /\ UNCHANGED <<store_vars, readiness>>

\* Seeded fault: only a successful launch is recorded.
RecordLaunchedPromotion(t) ==
    /\ work[t].at = "record promotion"
    /\ LET w == work[t]
       IN  IF w.status = "EXECUTING"
           THEN UpdatePromotion(w.pid, w.row_version, w.status, w.run, w.actor, w.actor)
           ELSE UNCHANGED store_vars
    /\ End(t)
    /\ UNCHANGED <<results, readiness>>

\* Against the row version the approval returned, with the reviewer of the
\* approved record: the actor.
CallUpdatePromotion(t) ==
    /\ work[t].at = "record promotion"
    /\ LET w == work[t]
       IN  \/ UpdatePromotion(w.pid, w.row_version, w.status, w.run, w.actor, w.actor)
           \/ /\ ~ RowVersionMatches(promotions[w.pid].row_version, w.row_version)
              /\ UNCHANGED store_vars
    /\ End(t)
    /\ UNCHANGED <<results, readiness>>

-----------------------------------------------------------------------------
(* The rest of the system *)

\* register: one store call.
Register == SomeRegistration /\ UNCHANGED <<work, results, readiness>>

\* reject_promotion and request_promotion_changes: one store call.
Review == SomePromotionReviewed /\ UNCHANGED <<work, results, readiness>>

\* HubRepositoryUnavailableError: the store refuses a call of a handler, or did
\* it and lost the connection before answering.
StoreFails(t) ==
    /\ Failures
    /\ work[t] # Idle
    /\ End(t)
    /\ UNCHANGED <<store_vars, results, readiness>>

\* External: the reconciler of job runs, or the operator who closes an
\* evaluation that is stuck, updates the record with its stored run. Neither
\* asks for it anew.
Reconcile(eid, status) ==
    /\ status # "REQUESTED"
    /\ eid \in DOMAIN evaluations
    /\ evaluations[eid].status \in ActiveEvaluation
    /\ UpdateEvaluation(eid, evaluations[eid].row_version, status,
                        evaluations[eid].job_run_id, None)
    /\ UNCHANGED <<work, results, readiness>>

\* External: evidence arrives, ages or is withdrawn.
EvidenceChanges(vid, decision) ==
    /\ readiness' = [readiness EXCEPT ![vid] = decision]
    /\ UNCHANGED <<store_vars, work, results>>

HandlerStarts(t) ==
    \/ \E app \in AppIds, env \in Environments : StartEvaluation(t, app, env)
    \/ \E app \in AppIds, source \in Environments, target \in Environments,
          requester \in Principals : StartRequest(t, app, source, target, requester)
    \/ \E pid \in PromotionIds, actor \in Principals, expected \in RowVersions :
          StartApproval(t, pid, actor, expected)

HandlerSteps(t) ==
    \/ CallCreateEvaluation(t)
    \/ LaunchEvaluation(t)
    \/ CallUpdateEvaluation(t)
    \/ AssessRequest(t)
    \/ CallCreatePromotion(t)
    \/ CheckSource(t)
    \/ AssessApproval(t)
    \/ AnswerResubmit(t)
    \/ CallApprovePromotion(t)
    \/ LaunchPromotion(t)
    \/ CallUpdatePromotion(t)

WorkflowInit ==
    /\ Init
    /\ work = [t \in Threads |-> Idle]
    /\ results = EmptyDict
    /\ readiness \in [VersionIds -> Decisions]

WorkflowNext ==
    \/ \E t \in Threads : HandlerStarts(t) \/ HandlerSteps(t) \/ StoreFails(t)
    \/ Register
    \/ Review
    \/ \E eid \in EvaluationIds, status \in EvaluationStatus : Reconcile(eid, status)
    \/ \E vid \in VersionIds, decision \in Decisions : EvidenceChanges(vid, decision)

WorkflowSpec == WorkflowInit /\ [][WorkflowNext]_workflow_vars

\* A request once in a thread runs until it is answered.
FairWorkflowSpec ==
    WorkflowSpec /\ \A t \in Threads : WF_workflow_vars(HandlerSteps(t))

-----------------------------------------------------------------------------
(* Properties *)

\* Handlers and runner hold what their code could have put there.
WorkflowTypeOK ==
    /\ TypeOK
    /\ work \in [Threads -> Work]
    /\ DOMAIN results \subseteq Tokens
    /\ results \in [DOMAIN results -> JobRunIds]
    /\ readiness \in [VersionIds -> Decisions]

\* The steps at which a handler is responsible for an evaluation, a promotion.
Launching(t, eid) ==
    work[t].at \in {"launch evaluation", "record evaluation"} /\ work[t].eid = eid

Promoting(t, pid) ==
    work[t].at \in {"launch promotion", "record promotion"} /\ work[t].pid = pid

\* A job is launched once: no two handlers hold the same evaluation or promotion
\* between its creation or approval and the record of the launch, and a handler
\* about to launch it is the first to present its token.
LaunchedOnce ==
    \A t \in Threads :
        /\ \A eid \in EvaluationIds : Launching(t, eid) =>
               /\ \A u \in Threads : Launching(u, eid) => u = t
               /\ work[t].at = "launch evaluation"
                      => Token("evaluation", eid) \notin DOMAIN results
        /\ \A pid \in PromotionIds : Promoting(t, pid) =>
               /\ \A u \in Threads : Promoting(u, pid) => u = t
               /\ work[t].at = "launch promotion"
                      => Token("promotion", pid) \notin DOMAIN results

\* A run the store names is the one the runner started for that record, and the
\* job of a promotion has run only if the promotion is approved or executing:
\* one that was never approved, or whose launch failed, has no run.
RunsAccountedFor ==
    /\ \A e \in DOMAIN evaluations : evaluations[e].job_run_id # None =>
           /\ Token("evaluation", e) \in DOMAIN results
           /\ results[Token("evaluation", e)] = evaluations[e].job_run_id
    /\ \A p \in DOMAIN promotions : promotions[p].status = "EXECUTING" =>
           /\ Token("promotion", p) \in DOMAIN results
           /\ results[Token("promotion", p)] = promotions[p].promotion_job_run_id
    /\ \A p \in PromotionIds : Token("promotion", p) \in DOMAIN results =>
           /\ p \in DOMAIN promotions
           /\ promotions[p].status \in {"APPROVED", "EXECUTING"}

\* An approval stands on the evidence the request was made on, although either
\* was read before the store was called.
ApprovedOnSameEvidence ==
    \A p \in DOMAIN promotions :
        promotions[p].approval_readiness_snapshot # None =>
            /\ promotions[p].approval_readiness_snapshot.decision
                   = promotions[p].readiness_snapshot.decision
            /\ promotions[p].readiness_snapshot.decision \in ReadyDecisions

\* Created or approved, but without the record of a launch.
EvaluationWaits(eid) ==
    eid \in DOMAIN evaluations /\ evaluations[eid].status = "REQUESTED"

PromotionWaits(pid) ==
    pid \in DOMAIN promotions /\ promotions[pid].status = "APPROVED"

\* While the store answers, what waits for its launch has a handler that will
\* record it: nothing is stranded in REQUESTED or APPROVED.
NothingStranded ==
    ~ Failures =>
        /\ \A eid \in EvaluationIds :
               EvaluationWaits(eid) => \E t \in Threads : Launching(t, eid)
        /\ \A pid \in PromotionIds :
               PromotionWaits(pid) => \E t \in Threads : Promoting(t, pid)

\* While the store answers, every evaluation that was accepted is launched by
\* start_evaluation, or recorded as failed.
EvaluationsLaunched ==
    \A eid \in EvaluationIds : EvaluationWaits(eid) ~> ~ EvaluationWaits(eid)

\* While the store answers, the job of every promotion that was approved is
\* launched by approve_promotion, or recorded as failed.
PromotionsLaunched ==
    \A pid \in PromotionIds : PromotionWaits(pid) ~> ~ PromotionWaits(pid)

\* What approve_promotion refuses, "the source environment has a newer current
\* version; submit a new promotion request", is never approved.
ApprovedVersionIsCurrent ==
    [][\A p \in DOMAIN promotions :
           (promotions[p].status # "APPROVED" /\ promotions'[p].status = "APPROVED")
           => current_versions[<<promotions[p].application_id,
                                 promotions[p].source_environment>>]
                  = promotions[p].application_version_id]_workflow_vars

\* Whoever is told "readiness evidence changed; submit a new promotion request"
\* can submit it.
NewRequestPossible ==
    \A t \in Threads : work[t].at = "resubmit" =>
        NoActivePromotion(work[t].current.application_id,
                          work[t].current.application_version_id,
                          work[t].current.target_environment)

=============================================================================
