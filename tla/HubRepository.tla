--------------------------- MODULE HubRepository ---------------------------
(***************************************************************************)
(* The AI Platform Hub's operational store as the callers of the           *)
(* HubRepository protocol see it: every operation is one atomic step.      *)
(* InMemoryHubRepository is that specification in Python (one RLock held   *)
(* for each operation); LakebaseHubRepository promises the same with one   *)
(* database transaction per operation.                                     *)
(*                                                                         *)
(* A call the code refuses (an exception) or answers from what is stored   *)
(* (an idempotent replay) leaves the store as it was: it is a stuttering   *)
(* step, so an action below is the call that goes through, and its guard   *)
(* is the conjunction of the code's refusals.                              *)
(*                                                                         *)
(* Python dicts are functions whose DOMAIN is the set of keys present.     *)
(***************************************************************************)
EXTENDS Naturals, Sequences, FiniteSets

CONSTANTS
    AppIds,          \* application identifiers
    Environments,    \* "dev", "uat", ...
    Evidence,        \* (git commit in lower case, manifest hash) pairs
    GitRepositories, \* the repository URL of a manifest
    VersionIds,
    EvaluationIds,
    PromotionIds,
    JobRunIds,
    Summaries,       \* sanitized result summaries of a finished evaluation
    Decisions,       \* decision signatures of a readiness snapshot
    Principals,
    Administrators,  \* principals with the PLATFORM_ADMINISTRATOR role
    Casefold,        \* str.casefold, on Principals
    Times,           \* the clock values callers stamp their records with
    MaxRowVersion,   \* bound: no record is updated beyond this row version
    None

ASSUME AdministratorsAssumption == Administrators \subseteq Principals
ASSUME TimesAssumption == Times \subseteq Nat
ASSUME MaxRowVersionAssumption == MaxRowVersion \in Nat

VARIABLES
    applications,       \* AppIds       -> application record
    versions,           \* VersionIds   -> immutable version, plus is_current
    version_keys,       \* identity key -> version id (idempotent registration)
    current_versions,   \* <<application, environment>> -> version id
    evaluations,        \* EvaluationIds -> evaluation run record
    promotions,         \* PromotionIds  -> promotion request record
    application_events, \* the audit trail of each application,
    evaluation_events,  \* ... of each evaluation,
    promotion_events    \* ... and of each promotion, in append order

registry_vars == <<applications, versions, version_keys, current_versions,
                   application_events>>
evaluation_vars == <<evaluations, evaluation_events>>
promotion_vars == <<promotions, promotion_events>>
store_vars == <<registry_vars, evaluation_vars, promotion_vars>>

-----------------------------------------------------------------------------
(* Records and status machines *)

EvaluationStatus ==
    {"REQUESTED", "QUEUED", "RUNNING", "SUCCEEDED", "FAILED", "CANCELLED"}

ActiveEvaluation == {"REQUESTED", "QUEUED", "RUNNING"}

EvaluationTransitions ==
    ({"REQUESTED"} \X {"QUEUED", "RUNNING", "FAILED", "CANCELLED"})
    \cup ({"QUEUED"} \X {"RUNNING", "FAILED", "CANCELLED"})
    \cup ({"RUNNING"} \X {"SUCCEEDED", "FAILED", "CANCELLED"})

PromotionStatus ==
    {"PENDING_REVIEW", "CHANGES_REQUESTED", "REJECTED", "APPROVED",
     "EXECUTING", "SUCCEEDED", "FAILED", "CANCELLED"}

ActivePromotion ==
    {"PENDING_REVIEW", "CHANGES_REQUESTED", "APPROVED", "EXECUTING"}

\* Decisions only the administrator methods may take.
ReviewStatus == {"APPROVED", "REJECTED", "CHANGES_REQUESTED"}

\* PromotionRequestRecord refuses these without approval readiness evidence.
NeedsApprovalEvidence == {"APPROVED", "EXECUTING", "SUCCEEDED", "FAILED"}

PromotionTransitions ==
    ({"PENDING_REVIEW"} \X {"CHANGES_REQUESTED", "REJECTED", "APPROVED", "CANCELLED"})
    \cup ({"CHANGES_REQUESTED"} \X {"PENDING_REVIEW", "CANCELLED"})
    \cup ({"APPROVED"} \X {"EXECUTING", "FAILED", "CANCELLED"})
    \cup ({"EXECUTING"} \X {"SUCCEEDED", "FAILED"})

RowVersion == Nat \ {0}

Application == [updated_at : Times, row_version : RowVersion]

Version == [application_id : AppIds, environment : Environments,
            evidence : Evidence, git_repository : GitRepositories,
            registered_at : Times, is_current : BOOLEAN]

VersionKeys == AppIds \X Environments \X Evidence

Evaluation == [application_id : AppIds, environment : Environments,
               application_version_id : VersionIds, requested_at : Times,
               status : EvaluationStatus, job_run_id : JobRunIds \cup {None},
               summary : Summaries \cup {None}, row_version : RowVersion]

Snapshot == [application_version_id : VersionIds, ready : BOOLEAN,
             decision : Decisions]
ASSUME NoneAssumption == None \notin Snapshot

Promotion == [application_id : AppIds, source_environment : Environments,
              target_environment : Environments,
              application_version_id : VersionIds, requested_by : Principals,
              status : PromotionStatus, readiness_snapshot : Snapshot,
              approval_readiness_snapshot : Snapshot \cup {None},
              reviewed_by : Principals \cup {None},
              promotion_job_run_id : JobRunIds \cup {None}, row_version : RowVersion]

RegistrationEvent == [environment : Environments,
                      previous_state : VersionIds \cup {None},
                      new_state : VersionIds]

EvaluationEvent == [previous_state : EvaluationStatus \cup {None},
                    new_state : EvaluationStatus]

PromotionEvent == [previous_state : PromotionStatus \cup {None},
                   new_state : PromotionStatus, actor_principal : Principals]

-----------------------------------------------------------------------------
(* Helpers shared by the operations *)

\* {} as a dict, and d[k] = v
EmptyDict == [k \in {} |-> None]
Put(d, k, v) == [x \in DOMAIN d \cup {k} |-> IF x = k THEN v ELSE d[x]]

Later(a, b) == IF a >= b THEN a ELSE b

VersionKey(v) == <<v.application_id, v.environment, v.evidence>>

Pointer(v) == <<v.application_id, v.environment>>

\* Seeded fault: the update is not a compare-and-swap.
RowVersionUnchecked(actual, expected) == TRUE

\* The compare-and-swap precondition of every update.
RowVersionMatches(actual, expected) == actual = expected

Init ==
    /\ applications = EmptyDict
    /\ versions = EmptyDict
    /\ version_keys = EmptyDict
    /\ current_versions = EmptyDict
    /\ evaluations = EmptyDict
    /\ promotions = EmptyDict
    /\ application_events = [a \in AppIds |-> << >>]
    /\ evaluation_events = [e \in EvaluationIds |-> << >>]
    /\ promotion_events = [p \in PromotionIds |-> << >>]

-----------------------------------------------------------------------------
(* Registration *)

\* An application identifier is bound to the Git repository it first came from.
GitRepositoryAllowed(v) ==
    LET own == {w \in DOMAIN versions : versions[w].application_id = v.application_id}
    IN  own = {} \/ \E w \in own : versions[w].git_repository = v.git_repository

\* Seeded fault: the merge keeps the time the caller supplied.
ApplicationStampedByCaller(v) ==
    IF v.application_id \in DOMAIN applications
    THEN [updated_at  |-> v.registered_at,
          row_version |-> applications[v.application_id].row_version + 1]
    ELSE [updated_at |-> v.registered_at, row_version |-> 1]

\* The application as it arrives with its first version, afterwards merged so
\* that a delayed registration does not move its clock backwards.
RegisteredApplication(v) ==
    IF v.application_id \in DOMAIN applications
    THEN [updated_at  |-> Later(applications[v.application_id].updated_at, v.registered_at),
          row_version |-> applications[v.application_id].row_version + 1]
    ELSE [updated_at |-> v.registered_at, row_version |-> 1]

\* Seeded fault: the superseded version keeps its flag.
NothingDemoted(v) == versions

\* The versions once the current one of v's environment has lost its flag.
Demoted(v) ==
    IF Pointer(v) \in DOMAIN current_versions
    THEN [versions EXCEPT ![current_versions[Pointer(v)]].is_current = FALSE]
    ELSE versions

PreviousCurrent(v) ==
    IF Pointer(v) \in DOMAIN current_versions THEN current_versions[Pointer(v)] ELSE None

\* Seeded fault: an identifier in use is overwritten.
KeyUnusedOnly(vid, v) == VersionKey(v) \notin DOMAIN version_keys

\* Seeded fault: no replay check, so the same evidence is stored twice.
IdUnusedOnly(vid, v) == vid \notin DOMAIN versions

\* Same application, environment, commit and manifest: a replay, answered with
\* the stored version. Same id for other evidence: a conflict.
NewEvidence(vid, v) ==
    /\ VersionKey(v) \notin DOMAIN version_keys
    /\ vid \notin DOMAIN versions

RegisterApplication(vid, v) ==
    /\ NewEvidence(vid, v)
    /\ GitRepositoryAllowed(v)
    /\ applications' = Put(applications, v.application_id, RegisteredApplication(v))
    /\ versions' = Put(Demoted(v), vid, [v EXCEPT !.is_current = TRUE])
    /\ version_keys' = Put(version_keys, VersionKey(v), vid)
    /\ current_versions' = Put(current_versions, Pointer(v), vid)
    /\ application_events' =
        [application_events EXCEPT ![v.application_id] =
            Append(@, [environment    |-> v.environment,
                       previous_state |-> PreviousCurrent(v),
                       new_state      |-> vid])]
    /\ UNCHANGED <<evaluation_vars, promotion_vars>>

-----------------------------------------------------------------------------
(* Evaluations *)

\* _validate_application_version_locked
VersionBelongs(app, vid, env) ==
    /\ app \in DOMAIN applications
    /\ vid \in DOMAIN versions
    /\ versions[vid].application_id = app
    /\ versions[vid].environment = env

\* Seeded fault: a queued evaluation does not count as active.
QueuedIsOver(app, env, vid) ==
    ~ \E e \in DOMAIN evaluations :
        /\ evaluations[e].status \in {"REQUESTED", "RUNNING"}
        /\ evaluations[e].application_id = app
        /\ evaluations[e].environment = env
        /\ evaluations[e].application_version_id = vid

NoActiveEvaluation(app, env, vid) ==
    ~ \E e \in DOMAIN evaluations :
        /\ evaluations[e].status \in ActiveEvaluation
        /\ evaluations[e].application_id = app
        /\ evaluations[e].environment = env
        /\ evaluations[e].application_version_id = vid

RecordEvaluation(eid, previous, evaluation) ==
    /\ evaluations' = Put(evaluations, eid, evaluation)
    /\ evaluation_events' =
        [evaluation_events EXCEPT ![eid] =
            Append(@, [previous_state |-> previous, new_state |-> evaluation.status])]
    /\ UNCHANGED <<registry_vars, promotion_vars>>

CreateEvaluation(eid, app, env, vid, now) ==
    /\ eid \notin DOMAIN evaluations
    /\ VersionBelongs(app, vid, env)
    /\ NoActiveEvaluation(app, env, vid)
    /\ RecordEvaluation(eid, None,
           [application_id |-> app, environment |-> env,
            application_version_id |-> vid, requested_at |-> now,
            status |-> "REQUESTED", job_run_id |-> None, summary |-> None,
            row_version |-> 1])

\* Seeded fault: a result that arrives late is recorded all the same.
LateResult(from, to) ==
    from = to \/ to \in {"SUCCEEDED", "FAILED"} \/ <<from, to>> \in EvaluationTransitions

\* A status may be written again, a terminal one included.
EvaluationStep(from, to) == from = to \/ <<from, to>> \in EvaluationTransitions

UpdateEvaluation(eid, expected, status, run, summary) ==
    /\ eid \in DOMAIN evaluations
    /\ RowVersionMatches(evaluations[eid].row_version, expected)
    /\ EvaluationStep(evaluations[eid].status, status)
    /\ expected < MaxRowVersion
    /\ RecordEvaluation(eid, evaluations[eid].status,
           [evaluations[eid] EXCEPT !.status = status, !.job_run_id = run,
                                    !.summary = summary,
                                    !.row_version = expected + 1])

-----------------------------------------------------------------------------
(* Promotions *)

\* Seeded fault: a request waiting for changes does not count as active.
ChangesRequestedIsOver(app, vid, target) ==
    ~ \E p \in DOMAIN promotions :
        /\ promotions[p].status \in ActivePromotion \ {"CHANGES_REQUESTED"}
        /\ promotions[p].application_id = app
        /\ promotions[p].application_version_id = vid
        /\ promotions[p].target_environment = target

NoActivePromotion(app, vid, target) ==
    ~ \E p \in DOMAIN promotions :
        /\ promotions[p].status \in ActivePromotion
        /\ promotions[p].application_id = app
        /\ promotions[p].application_version_id = vid
        /\ promotions[p].target_environment = target

\* Seeded fault: the event is built after the record was overwritten.
EventOfNewState(previous, promotion, actor) ==
    [previous_state |-> promotion.status, new_state |-> promotion.status,
     actor_principal |-> actor]

PromotionEventOf(previous, promotion, actor) ==
    [previous_state |-> previous, new_state |-> promotion.status,
     actor_principal |-> actor]

RecordPromotion(pid, previous, promotion, actor) ==
    /\ promotions' = Put(promotions, pid, promotion)
    /\ promotion_events' =
        [promotion_events EXCEPT ![pid] =
            Append(@, PromotionEventOf(previous, promotion, actor))]
    /\ UNCHANGED <<registry_vars, evaluation_vars>>

CreatePromotionRequest(pid, app, source, target, vid, requester, snapshot) ==
    /\ source # target
    /\ snapshot.application_version_id = vid
    /\ snapshot.ready
    /\ pid \notin DOMAIN promotions
    /\ VersionBelongs(app, vid, source)
    /\ NoActivePromotion(app, vid, target)
    /\ RecordPromotion(pid, None,
           [application_id |-> app, source_environment |-> source,
            target_environment |-> target, application_version_id |-> vid,
            requested_by |-> requester, status |-> "PENDING_REVIEW",
            readiness_snapshot |-> snapshot,
            approval_readiness_snapshot |-> None, reviewed_by |-> None,
            promotion_job_run_id |-> None, row_version |-> 1],
           requester)

\* Seeded fault: a review may be taken again after the decision.
ReviewableAgain(pid, actor, expected) ==
    /\ actor \in Administrators
    /\ pid \in DOMAIN promotions
    /\ RowVersionMatches(promotions[pid].row_version, expected)
    /\ promotions[pid].status \in ActivePromotion
    /\ expected < MaxRowVersion

\* What approve, reject and request changes all require.
Reviewable(pid, actor, expected) ==
    /\ actor \in Administrators
    /\ pid \in DOMAIN promotions
    /\ RowVersionMatches(promotions[pid].row_version, expected)
    /\ promotions[pid].status = "PENDING_REVIEW"
    /\ expected < MaxRowVersion

\* Seeded fault: principals are compared without casefold.
DifferentSpelling(requester, approver) == requester # approver

DifferentPrincipals(requester, approver) ==
    Casefold[requester] # Casefold[approver]

\* Seeded fault: approval does not look at the readiness it stores.
AnyReadinessPermits(promotion, snapshot) == TRUE

\* _validate_readiness_for_promotion
ReadinessPermits(promotion, snapshot) ==
    /\ snapshot.ready
    /\ snapshot.application_version_id = promotion.application_version_id

\* Without a revalidated snapshot the request-time one stands.
ApprovalEvidence(promotion, snapshot) ==
    IF snapshot = None THEN promotion.readiness_snapshot ELSE snapshot

ApprovePromotion(pid, actor, expected, snapshot) ==
    /\ Reviewable(pid, actor, expected)
    /\ DifferentPrincipals(promotions[pid].requested_by, actor)
    /\ ReadinessPermits(promotions[pid], ApprovalEvidence(promotions[pid], snapshot))
    /\ RecordPromotion(pid, promotions[pid].status,
           [promotions[pid] EXCEPT
               !.status = "APPROVED",
               !.approval_readiness_snapshot = ApprovalEvidence(promotions[pid], snapshot),
               !.reviewed_by = actor,
               !.row_version = expected + 1],
           actor)

\* reject_promotion and request_promotion_changes; the comment both demand is
\* left out. The requester is not excluded here.
ReviewPromotion(pid, actor, expected, status) ==
    /\ status \in {"REJECTED", "CHANGES_REQUESTED"}
    /\ Reviewable(pid, actor, expected)
    /\ RecordPromotion(pid, promotions[pid].status,
           [promotions[pid] EXCEPT !.status = status, !.reviewed_by = actor,
                                   !.row_version = expected + 1],
           actor)

\* update_promotion refuses the review decisions, so it cannot bypass them.
ExecutionStep(from, to) ==
    to \notin ReviewStatus /\ <<from, to>> \in PromotionTransitions

\* update_promotion stores the record of its caller: _assert_promotion_identity
\* protects what was requested and both snapshots, but not who reviewed it.
UpdatePromotion(pid, expected, status, run, reviewer, actor) ==
    /\ pid \in DOMAIN promotions
    /\ RowVersionMatches(promotions[pid].row_version, expected)
    /\ ExecutionStep(promotions[pid].status, status)
    /\ status \in NeedsApprovalEvidence
           => promotions[pid].approval_readiness_snapshot # None
    /\ expected < MaxRowVersion
    /\ RecordPromotion(pid, promotions[pid].status,
           [promotions[pid] EXCEPT !.status = status,
                                   !.promotion_job_run_id = run,
                                   !.reviewed_by = reviewer,
                                   !.row_version = expected + 1],
           actor)

-----------------------------------------------------------------------------
(* The store under arbitrary callers *)

RowVersions == 1 .. MaxRowVersion

SomeRegistration ==
    \E vid \in VersionIds, app \in AppIds, env \in Environments,
       evidence \in Evidence, repository \in GitRepositories, now \in Times :
        RegisterApplication(vid,
            [application_id |-> app, environment |-> env, evidence |-> evidence,
             git_repository |-> repository, registered_at |-> now,
             is_current |-> TRUE])

SomeEvaluationCreated ==
    \E eid \in EvaluationIds, app \in AppIds, env \in Environments,
       vid \in VersionIds, now \in Times :
        CreateEvaluation(eid, app, env, vid, now)

SomeEvaluationUpdated ==
    \E eid \in EvaluationIds, expected \in RowVersions,
       status \in EvaluationStatus, run \in JobRunIds \cup {None},
       summary \in Summaries \cup {None} :
        UpdateEvaluation(eid, expected, status, run, summary)

SomePromotionRequested ==
    \E pid \in PromotionIds, app \in AppIds, source \in Environments,
       target \in Environments, vid \in VersionIds, requester \in Principals,
       snapshot \in Snapshot :
        CreatePromotionRequest(pid, app, source, target, vid, requester, snapshot)

SomePromotionApproved ==
    \E pid \in PromotionIds, actor \in Principals, expected \in RowVersions,
       snapshot \in Snapshot \cup {None} :
        ApprovePromotion(pid, actor, expected, snapshot)

SomePromotionReviewed ==
    \E pid \in PromotionIds, actor \in Principals, expected \in RowVersions,
       status \in PromotionStatus :
        ReviewPromotion(pid, actor, expected, status)

SomePromotionUpdated ==
    \E pid \in PromotionIds, expected \in RowVersions,
       status \in PromotionStatus, run \in JobRunIds \cup {None},
       reviewer \in Principals \cup {None}, actor \in Principals :
        UpdatePromotion(pid, expected, status, run, reviewer, actor)

Next ==
    \/ SomeRegistration
    \/ SomeEvaluationCreated
    \/ SomeEvaluationUpdated
    \/ SomePromotionRequested
    \/ SomePromotionApproved
    \/ SomePromotionReviewed
    \/ SomePromotionUpdated

Spec == Init /\ [][Next]_store_vars

-----------------------------------------------------------------------------
(* Properties *)

\* Every stored value is one the record models accept.
TypeOK ==
    /\ DOMAIN applications \subseteq AppIds
    /\ applications \in [DOMAIN applications -> Application]
    /\ DOMAIN versions \subseteq VersionIds
    /\ versions \in [DOMAIN versions -> Version]
    /\ DOMAIN version_keys \subseteq VersionKeys
    /\ version_keys \in [DOMAIN version_keys -> VersionIds]
    /\ DOMAIN current_versions \subseteq AppIds \X Environments
    /\ current_versions \in [DOMAIN current_versions -> VersionIds]
    /\ DOMAIN evaluations \subseteq EvaluationIds
    /\ evaluations \in [DOMAIN evaluations -> Evaluation]
    /\ DOMAIN promotions \subseteq PromotionIds
    /\ promotions \in [DOMAIN promotions -> Promotion]
    /\ application_events \in [AppIds -> Seq(RegistrationEvent)]
    /\ evaluation_events \in [EvaluationIds -> Seq(EvaluationEvent)]
    /\ promotion_events \in [PromotionIds -> Seq(PromotionEvent)]

\* The pointer of an environment (get_current_version) and the is_current flags
\* (list_versions, which the service reads instead) name the same version: one
\* for every environment that has any, none for the others.
CurrentVersionsAgree ==
    \A app \in AppIds, env \in Environments :
        {v \in DOMAIN versions : /\ versions[v].application_id = app
                                 /\ versions[v].environment = env
                                 /\ versions[v].is_current}
        = {current_versions[k] : k \in DOMAIN current_versions \cap {<<app, env>>}}

\* Registration is idempotent: the key index holds exactly the stored versions,
\* so no two of them carry the same application, environment and evidence.
EvidenceRegisteredOnce ==
    /\ DOMAIN version_keys = {VersionKey(versions[v]) : v \in DOMAIN versions}
    /\ \A v \in DOMAIN versions : version_keys[VersionKey(versions[v])] = v

\* The events of an application before the i-th about the same environment.
EarlierRegistrations(app, i) ==
    {j \in 1 .. i - 1 : application_events[app][j].environment
                            = application_events[app][i].environment}

\* An application's audit trail tells its registry state: one event and one row
\* version per stored version, each naming the version it superseded and the
\* last of an environment naming the current one; the versions come from one Git
\* repository and none is newer than the application's updated_at.
RegistrationHistory ==
    \A app \in AppIds :
        LET trail == application_events[app]
            own == {v \in DOMAIN versions : versions[v].application_id = app}
        IN  /\ own = {trail[i].new_state : i \in DOMAIN trail}
            /\ Len(trail) = Cardinality(own)
            /\ (app \in DOMAIN applications) = (own # {})
            /\ own # {} => applications[app].row_version = Len(trail)
            /\ \A v, w \in own : versions[v].git_repository = versions[w].git_repository
            /\ \A v \in own : versions[v].registered_at <= applications[app].updated_at
            /\ \A i \in DOMAIN trail :
                  /\ EarlierRegistrations(app, i) = {}
                         => trail[i].previous_state = None
                  /\ \A j \in EarlierRegistrations(app, i) :
                         (\A k \in EarlierRegistrations(app, i) : k <= j)
                             => trail[i].previous_state = trail[j].new_state
                  /\ (\A j \in DOMAIN trail : i \notin EarlierRegistrations(app, j))
                         => current_versions[<<app, trail[i].environment>>]
                                = trail[i].new_state

\* No call rewrites stored evidence or makes a superseded version current again:
\* registering it once more is a replay, which does not move the pointer.
SupersededForGood ==
    [][\A v \in DOMAIN versions :
           /\ v \in DOMAIN versions'
           /\ versions'[v] \in {versions[v], [versions[v] EXCEPT !.is_current = FALSE]}
      ]_store_vars

IsVersionOf(vid, app, env) ==
    /\ app \in DOMAIN applications
    /\ vid \in DOMAIN versions
    /\ versions[vid].application_id = app
    /\ versions[vid].environment = env

\* An evaluation or a promotion is about a stored version of its own application
\* and environment: no later registration pulls the evidence from under it.
WorkflowsBelong ==
    /\ \A e \in DOMAIN evaluations :
           IsVersionOf(evaluations[e].application_version_id,
                       evaluations[e].application_id, evaluations[e].environment)
    /\ \A p \in DOMAIN promotions :
           IsVersionOf(promotions[p].application_version_id,
                       promotions[p].application_id, promotions[p].source_environment)

\* Two callers asking for the same evaluation never both have one in flight.
OneActiveEvaluation ==
    \A e, f \in DOMAIN evaluations :
        /\ evaluations[e].status \in ActiveEvaluation
        /\ evaluations[f].status \in ActiveEvaluation
        /\ evaluations[e].application_version_id = evaluations[f].application_version_id
        => e = f

\* trail leads from nothing to status in as many steps as the row version says,
\* each starting where the one before it ended.
TellsStatus(trail, record) ==
    /\ trail # << >>
    /\ Len(trail) = record.row_version
    /\ trail[1].previous_state = None
    /\ trail[Len(trail)].new_state = record.status
    /\ \A i \in 2 .. Len(trail) : trail[i].previous_state = trail[i - 1].new_state

\* No update of an evaluation is lost, made from a stale row or left unaudited.
EvaluationTrail ==
    \A e \in EvaluationIds :
        IF e \in DOMAIN evaluations
        THEN TellsStatus(evaluation_events[e], evaluations[e])
        ELSE evaluation_events[e] = << >>

\* However late an update arrives, an evaluation has one outcome: once its trail
\* tells that it finished, every later event tells the same, and none succeeds
\* that was never seen running.
OutcomeFinal ==
    \A e \in EvaluationIds : \A j \in DOMAIN evaluation_events[e] :
        LET trail == evaluation_events[e]
            earlier == {trail[i].new_state : i \in 1 .. j - 1}
        IN  /\ \A outcome \in earlier \ ActiveEvaluation : trail[j].new_state = outcome
            /\ trail[j].new_state = "SUCCEEDED" => "RUNNING" \in earlier

\* One request at a time to bring a version to an environment, the one that
\* waits for changes included.
OneActivePromotion ==
    \A p, q \in DOMAIN promotions :
        /\ promotions[p].status \in ActivePromotion
        /\ promotions[q].status \in ActivePromotion
        /\ promotions[p].application_version_id = promotions[q].application_version_id
        /\ promotions[p].target_environment = promotions[q].target_environment
        => p = q

\* As EvaluationTrail, for promotions.
PromotionTrail ==
    \A p \in PromotionIds :
        IF p \in DOMAIN promotions
        THEN TellsStatus(promotion_events[p], promotions[p])
        ELSE promotion_events[p] = << >>

\* Every review decision in a trail is an administrator's, and an approval is
\* never the requester's own, however either spells the principal.
FourEyes ==
    \A p \in DOMAIN promotions : \A i \in DOMAIN promotion_events[p] :
        LET event == promotion_events[p][i]
        IN  /\ event.new_state \in ReviewStatus => event.actor_principal \in Administrators
            /\ event.new_state = "APPROVED"
                   => Casefold[event.actor_principal] # Casefold[promotions[p].requested_by]

\* A promotion stores approval evidence if and only if its trail holds an approval;
\* the evidence was ready and is about the version of the request. With it the
\* request is not under review and was not rejected, without it nothing was launched.
\* (Who approved is told by the trail; reviewed_by is what the last caller wrote.)
ApprovalBacked ==
    \A p \in DOMAIN promotions :
        LET evidence == promotions[p].approval_readiness_snapshot
            approved == \E i \in DOMAIN promotion_events[p] :
                            promotion_events[p][i].new_state = "APPROVED"
        IN  IF evidence \in Snapshot
            THEN /\ approved
                 /\ evidence.ready
                 /\ evidence.application_version_id = promotions[p].application_version_id
                 /\ promotions[p].status
                        \notin {"PENDING_REVIEW", "CHANGES_REQUESTED", "REJECTED"}
            ELSE ~ approved /\ promotions[p].status \notin NeedsApprovalEvidence

\* An approval is decided once: no later call replaces the evidence it rests on.
ApprovalImmutable ==
    [][\A p \in DOMAIN promotions :
           promotions[p].approval_readiness_snapshot # None =>
               /\ p \in DOMAIN promotions'
               /\ promotions'[p].approval_readiness_snapshot
                      = promotions[p].approval_readiness_snapshot]_store_vars

=============================================================================
