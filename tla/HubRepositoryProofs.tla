------------------------ MODULE HubRepositoryProofs ------------------------
(***************************************************************************)
(* Theorems about HubRepository, for every value of its constants: first   *)
(* its types, then its safety properties.                                  *)
(*                                                                         *)
(* For the latter all operations are reduced to five kinds of step: a      *)
(* registration, a record created, and a record moved along its status     *)
(* machine (of an evaluation or a promotion).  StoreInv, the inductive     *)
(* invariant, is then preserved by each kind.  What the audit trail of an  *)
(* application tells (History) is proved on top of it.                     *)
(***************************************************************************)
EXTENDS HubRepository, FiniteSetTheorems, TLAPS

-----------------------------------------------------------------------------
(* Dicts *)

\* What writing one key of a dict does.
LEMMA PutFacts ==
    ASSUME NEW d, NEW k, NEW v
    PROVE  /\ DOMAIN Put(d, k, v) = DOMAIN d \cup {k}
           /\ Put(d, k, v)[k] = v
           /\ \A x \in DOMAIN d : x # k => Put(d, k, v)[x] = d[x]
BY DEF Put

\* A write of a value of the right type keeps a dict well typed.
LEMMA PutType ==
    ASSUME NEW S, NEW d, d \in [DOMAIN d -> S], NEW k, NEW v \in S
    PROVE  Put(d, k, v) \in [DOMAIN Put(d, k, v) -> S]
BY DEF Put

-----------------------------------------------------------------------------
(* Type correctness *)

RegistryTypeOK ==
    /\ DOMAIN applications \subseteq AppIds
    /\ applications \in [DOMAIN applications -> Application]
    /\ DOMAIN versions \subseteq VersionIds
    /\ versions \in [DOMAIN versions -> Version]
    /\ DOMAIN version_keys \subseteq VersionKeys
    /\ version_keys \in [DOMAIN version_keys -> VersionIds]
    /\ DOMAIN current_versions \subseteq AppIds \X Environments
    /\ current_versions \in [DOMAIN current_versions -> VersionIds]
    /\ application_events \in [AppIds -> Seq(RegistrationEvent)]

EvaluationTypeOK ==
    /\ DOMAIN evaluations \subseteq EvaluationIds
    /\ evaluations \in [DOMAIN evaluations -> Evaluation]
    /\ evaluation_events \in [EvaluationIds -> Seq(EvaluationEvent)]

PromotionTypeOK ==
    /\ DOMAIN promotions \subseteq PromotionIds
    /\ promotions \in [DOMAIN promotions -> Promotion]
    /\ promotion_events \in [PromotionIds -> Seq(PromotionEvent)]

\* The type invariant by component.
LEMMA TypeOKSplit == TypeOK <=> RegistryTypeOK /\ EvaluationTypeOK /\ PromotionTypeOK
BY DEF TypeOK, RegistryTypeOK, EvaluationTypeOK, PromotionTypeOK

\* A registration keeps the registry well typed.
LEMMA RegisterType ==
    ASSUME RegistryTypeOK, NEW vid \in VersionIds, NEW v \in Version,
           RegisterApplication(vid, v)
    PROVE  RegistryTypeOK'
<1>1. applications' = Put(applications, v.application_id, RegisteredApplication(v))
  BY DEF RegisterApplication
<1>2. RegisteredApplication(v) \in Application
  <2>1. v.application_id \in AppIds /\ v.registered_at \in Times
    BY DEF Version
  <2>2. CASE v.application_id \in DOMAIN applications
    BY <2>1, <2>2, TimesAssumption
    DEF RegisteredApplication, RegistryTypeOK, Application, RowVersion, Later
  <2>3. CASE v.application_id \notin DOMAIN applications
    BY <2>1, <2>3 DEF RegisteredApplication, Application, RowVersion
  <2>4. QED BY <2>2, <2>3
<1>3. Demoted(v) \in [DOMAIN versions -> Version]
  BY DEF Demoted, RegistryTypeOK, Version
<1>4. [v EXCEPT !.is_current = TRUE] \in Version
  BY DEF Version
<1>5. versions' = Put(Demoted(v), vid, [v EXCEPT !.is_current = TRUE])
  BY DEF RegisterApplication
<1>6. version_keys' = Put(version_keys, VersionKey(v), vid)
  BY DEF RegisterApplication
<1>7. current_versions' = Put(current_versions, Pointer(v), vid)
  BY DEF RegisterApplication
<1>8. v.application_id \in AppIds /\ VersionKey(v) \in VersionKeys
      /\ Pointer(v) \in AppIds \X Environments
  BY DEF Version, VersionKey, VersionKeys, Pointer
<1>9. application_events' \in [AppIds -> Seq(RegistrationEvent)]
  <2>1. PreviousCurrent(v) \in VersionIds \cup {None}
    BY DEF PreviousCurrent, RegistryTypeOK
  <2>2. [environment |-> v.environment, previous_state |-> PreviousCurrent(v),
         new_state |-> vid] \in RegistrationEvent
    BY <2>1 DEF RegistrationEvent, Version
  <2>3. QED BY <2>2, <1>8 DEF RegisterApplication, RegistryTypeOK
<1>10. DOMAIN applications' \subseteq AppIds
       /\ applications' \in [DOMAIN applications' -> Application]
  BY <1>1, <1>2, <1>8 DEF RegistryTypeOK, Put
<1>11. DOMAIN versions' \subseteq VersionIds /\ versions' \in [DOMAIN versions' -> Version]
  BY <1>3, <1>4, <1>5 DEF RegistryTypeOK, Put
<1>12. DOMAIN version_keys' \subseteq VersionKeys
       /\ version_keys' \in [DOMAIN version_keys' -> VersionIds]
  BY <1>6, <1>8 DEF RegistryTypeOK, Put
<1>13. DOMAIN current_versions' \subseteq AppIds \X Environments
       /\ current_versions' \in [DOMAIN current_versions' -> VersionIds]
  BY <1>7, <1>8 DEF RegistryTypeOK, Put
<1>14. QED BY <1>9, <1>10, <1>11, <1>12, <1>13 DEF RegistryTypeOK

\* Recording a well-typed evaluation keeps the evaluations well typed.
LEMMA RecordEvaluationType ==
    ASSUME EvaluationTypeOK, NEW eid \in EvaluationIds,
           NEW previous \in EvaluationStatus \cup {None},
           NEW evaluation \in Evaluation,
           RecordEvaluation(eid, previous, evaluation)
    PROVE  EvaluationTypeOK'
<1>1. [previous_state |-> previous, new_state |-> evaluation.status] \in EvaluationEvent
  BY DEF EvaluationEvent, Evaluation
<1>2. evaluation_events' \in [EvaluationIds -> Seq(EvaluationEvent)]
  BY <1>1 DEF RecordEvaluation, EvaluationTypeOK
<1>3. DOMAIN evaluations' \subseteq EvaluationIds
      /\ evaluations' \in [DOMAIN evaluations' -> Evaluation]
  BY DEF RecordEvaluation, EvaluationTypeOK, Put
<1>4. QED BY <1>2, <1>3 DEF EvaluationTypeOK

\* Recording a well-typed promotion keeps the promotions well typed.
LEMMA RecordPromotionType ==
    ASSUME PromotionTypeOK, NEW pid \in PromotionIds,
           NEW previous \in PromotionStatus \cup {None},
           NEW promotion \in Promotion, NEW actor \in Principals,
           RecordPromotion(pid, previous, promotion, actor)
    PROVE  PromotionTypeOK'
<1>1. PromotionEventOf(previous, promotion, actor) \in PromotionEvent
  BY DEF PromotionEvent, Promotion, PromotionEventOf
<1>2. promotion_events' \in [PromotionIds -> Seq(PromotionEvent)]
  BY <1>1 DEF RecordPromotion, PromotionTypeOK
<1>3. DOMAIN promotions' \subseteq PromotionIds
      /\ promotions' \in [DOMAIN promotions' -> Promotion]
  BY DEF RecordPromotion, PromotionTypeOK, Put
<1>4. QED BY <1>2, <1>3 DEF PromotionTypeOK

\* What the operations write is well typed: each is a RecordEvaluation or a
\* RecordPromotion of a well-typed record.
LEMMA CreateEvaluationRecords ==
    ASSUME NEW eid \in EvaluationIds, NEW app \in AppIds, NEW env \in Environments,
           NEW vid \in VersionIds, NEW now \in Times,
           CreateEvaluation(eid, app, env, vid, now)
    PROVE  \E evaluation \in Evaluation :
               /\ RecordEvaluation(eid, None, evaluation)
               /\ evaluation.status = "REQUESTED"
               /\ evaluation.row_version = 1
               /\ evaluation.job_run_id = None
               /\ evaluation.application_id = app
               /\ evaluation.environment = env
               /\ evaluation.application_version_id = vid
<1> DEFINE new == [application_id |-> app, environment |-> env,
                   application_version_id |-> vid, requested_at |-> now,
                   status |-> "REQUESTED", job_run_id |-> None,
                   summary |-> None, row_version |-> 1]
<1>1. new \in Evaluation
  BY DEF Evaluation, RowVersion, EvaluationStatus
<1>2. RecordEvaluation(eid, None, new)
  BY DEF CreateEvaluation
<1>3. QED BY <1>1, <1>2

\* An accepted update records a well-typed evaluation one row version later.
LEMMA UpdateEvaluationRecords ==
    ASSUME EvaluationTypeOK, NEW eid \in EvaluationIds, NEW expected \in RowVersions,
           NEW status \in EvaluationStatus, NEW run \in JobRunIds \cup {None},
           NEW summary \in Summaries \cup {None},
           UpdateEvaluation(eid, expected, status, run, summary)
    PROVE  /\ eid \in DOMAIN evaluations
           /\ EvaluationStep(evaluations[eid].status, status)
           /\ evaluations[eid].status \in EvaluationStatus
           /\ \E evaluation \in Evaluation :
                 /\ RecordEvaluation(eid, evaluations[eid].status, evaluation)
                 /\ evaluation.status = status
                 /\ evaluation.job_run_id = run
                 /\ evaluation.row_version = evaluations[eid].row_version + 1
                 /\ evaluation.application_id = evaluations[eid].application_id
                 /\ evaluation.environment = evaluations[eid].environment
                 /\ evaluation.application_version_id
                        = evaluations[eid].application_version_id
<1> DEFINE new == [evaluations[eid] EXCEPT !.status = status, !.job_run_id = run,
                                           !.summary = summary,
                                           !.row_version = expected + 1]
<1>1. eid \in DOMAIN evaluations /\ evaluations[eid] \in Evaluation
  BY DEF UpdateEvaluation, EvaluationTypeOK
<1>2. expected \in Nat /\ evaluations[eid].row_version = expected
  BY MaxRowVersionAssumption DEF UpdateEvaluation, RowVersionMatches, RowVersions
<1>3. new \in Evaluation
  <2>1. expected + 1 \in RowVersion
    BY <1>2 DEF RowVersion
  <2>2. \A old \in Evaluation :
            [old EXCEPT !.status = status, !.job_run_id = run, !.summary = summary,
                        !.row_version = expected + 1] \in Evaluation
    BY <2>1 DEF Evaluation
  <2>3. QED BY <1>1, <2>2
<1>4. RecordEvaluation(eid, evaluations[eid].status, new)
  BY DEF UpdateEvaluation
<1>5. /\ new.status = status
      /\ new.job_run_id = run
      /\ new.row_version = evaluations[eid].row_version + 1
      /\ new.application_id = evaluations[eid].application_id
      /\ new.environment = evaluations[eid].environment
      /\ new.application_version_id = evaluations[eid].application_version_id
  BY <1>1, <1>2 DEF Evaluation
<1>6. EvaluationStep(evaluations[eid].status, status)
      /\ evaluations[eid].status \in EvaluationStatus
  BY <1>1 DEF UpdateEvaluation, Evaluation
<1>7. QED BY <1>1, <1>3, <1>4, <1>5, <1>6

\* A new request records a well-typed promotion under review.
LEMMA CreatePromotionRecords ==
    ASSUME NEW pid \in PromotionIds, NEW app \in AppIds, NEW source \in Environments,
           NEW target \in Environments, NEW vid \in VersionIds,
           NEW requester \in Principals, NEW snapshot \in Snapshot,
           CreatePromotionRequest(pid, app, source, target, vid, requester, snapshot)
    PROVE  \E promotion \in Promotion :
               /\ RecordPromotion(pid, None, promotion, requester)
               /\ promotion.status = "PENDING_REVIEW"
               /\ promotion.row_version = 1
               /\ promotion.application_id = app
               /\ promotion.source_environment = source
               /\ promotion.target_environment = target
               /\ promotion.application_version_id = vid
               /\ promotion.readiness_snapshot = snapshot
               /\ promotion.approval_readiness_snapshot = None
<1> DEFINE new == [application_id |-> app, source_environment |-> source,
                   target_environment |-> target, application_version_id |-> vid,
                   requested_by |-> requester, status |-> "PENDING_REVIEW",
                   readiness_snapshot |-> snapshot,
                   approval_readiness_snapshot |-> None, reviewed_by |-> None,
                   promotion_job_run_id |-> None, row_version |-> 1]
<1>1. new \in Promotion
  BY DEF Promotion, RowVersion, PromotionStatus
<1>2. RecordPromotion(pid, None, new, requester)
  BY DEF CreatePromotionRequest
<1>3. QED BY <1>1, <1>2

\* What no review or execution step changes of a request.
SameRequest(old, new) ==
    /\ new.application_id = old.application_id
    /\ new.source_environment = old.source_environment
    /\ new.target_environment = old.target_environment
    /\ new.application_version_id = old.application_version_id
    /\ new.requested_by = old.requested_by
    /\ new.readiness_snapshot = old.readiness_snapshot
    /\ new.row_version = old.row_version + 1

\* An approval records a well-typed promotion with its evidence and reviewer.
LEMMA ApprovePromotionRecords ==
    ASSUME PromotionTypeOK, NEW pid \in PromotionIds, NEW actor \in Principals,
           NEW expected \in RowVersions, NEW snapshot \in Snapshot \cup {None},
           ApprovePromotion(pid, actor, expected, snapshot)
    PROVE  /\ pid \in DOMAIN promotions
           /\ promotions[pid].status = "PENDING_REVIEW"
           /\ actor \in Administrators
           /\ Casefold[promotions[pid].requested_by] # Casefold[actor]
           /\ \E promotion \in Promotion :
                 /\ RecordPromotion(pid, "PENDING_REVIEW", promotion, actor)
                 /\ SameRequest(promotions[pid], promotion)
                 /\ promotion.status = "APPROVED"
                 /\ promotion.approval_readiness_snapshot
                        = ApprovalEvidence(promotions[pid], snapshot)
                 /\ promotion.approval_readiness_snapshot \in Snapshot
                 /\ promotion.approval_readiness_snapshot.ready
                 /\ promotion.approval_readiness_snapshot.application_version_id
                        = promotion.application_version_id
                 /\ promotion.reviewed_by = actor
<1> DEFINE evidence == ApprovalEvidence(promotions[pid], snapshot)
           new == [promotions[pid] EXCEPT !.status = "APPROVED",
                       !.approval_readiness_snapshot = evidence,
                       !.reviewed_by = actor, !.row_version = expected + 1]
<1>1. pid \in DOMAIN promotions /\ promotions[pid] \in Promotion
  BY DEF ApprovePromotion, Reviewable, PromotionTypeOK
<1>2. expected + 1 \in RowVersion /\ promotions[pid].row_version = expected
  BY MaxRowVersionAssumption DEF ApprovePromotion, Reviewable, RowVersionMatches, RowVersions,
         RowVersion
<1>3. /\ evidence \in Snapshot /\ evidence.ready
      /\ evidence.application_version_id = promotions[pid].application_version_id
  <2>1. evidence \in Snapshot
    BY <1>1 DEF ApprovalEvidence, Promotion
  <2>2. QED BY <2>1 DEF ApprovePromotion, ReadinessPermits
<1>4. new \in Promotion /\ SameRequest(promotions[pid], new) /\ new.status = "APPROVED"
      /\ new.approval_readiness_snapshot = evidence /\ new.reviewed_by = actor
  <2> HIDE DEF evidence
  <2>1. \A old \in Promotion : old.row_version = expected =>
            LET next == [old EXCEPT !.status = "APPROVED",
                             !.approval_readiness_snapshot = evidence,
                             !.reviewed_by = actor, !.row_version = expected + 1]
            IN  next \in Promotion /\ SameRequest(old, next) /\ next.status = "APPROVED"
                /\ next.approval_readiness_snapshot = evidence /\ next.reviewed_by = actor
    BY <1>2, <1>3 DEF Promotion, PromotionStatus, SameRequest
  <2>2. QED BY <1>1, <1>2, <2>1
<1>5. /\ RecordPromotion(pid, promotions[pid].status, new, actor)
      /\ promotions[pid].status = "PENDING_REVIEW"
      /\ actor \in Administrators
      /\ Casefold[promotions[pid].requested_by] # Casefold[actor]
  BY DEF ApprovePromotion, Reviewable, DifferentPrincipals
<1> HIDE DEF new
<1>6. new.approval_readiness_snapshot.application_version_id = new.application_version_id
  BY <1>3, <1>4 DEF SameRequest
<1>7. QED BY <1>1, <1>3, <1>4, <1>5, <1>6

\* A rejection or a request for changes records a well-typed promotion.
LEMMA ReviewPromotionRecords ==
    ASSUME PromotionTypeOK, NEW pid \in PromotionIds, NEW actor \in Principals,
           NEW expected \in RowVersions, NEW status \in PromotionStatus,
           ReviewPromotion(pid, actor, expected, status)
    PROVE  /\ pid \in DOMAIN promotions
           /\ promotions[pid].status = "PENDING_REVIEW"
           /\ status \in {"REJECTED", "CHANGES_REQUESTED"}
           /\ actor \in Administrators
           /\ \E promotion \in Promotion :
                 /\ RecordPromotion(pid, "PENDING_REVIEW", promotion, actor)
                 /\ SameRequest(promotions[pid], promotion)
                 /\ promotion.status = status
                 /\ promotion.approval_readiness_snapshot
                        = promotions[pid].approval_readiness_snapshot
<1> DEFINE new == [promotions[pid] EXCEPT !.status = status, !.reviewed_by = actor,
                                          !.row_version = expected + 1]
<1>1. pid \in DOMAIN promotions /\ promotions[pid] \in Promotion
  BY DEF ReviewPromotion, Reviewable, PromotionTypeOK
<1>2. expected + 1 \in RowVersion /\ promotions[pid].row_version = expected
  BY MaxRowVersionAssumption DEF ReviewPromotion, Reviewable, RowVersionMatches, RowVersions,
         RowVersion
<1>3. new \in Promotion /\ SameRequest(promotions[pid], new) /\ new.status = status
      /\ new.approval_readiness_snapshot = promotions[pid].approval_readiness_snapshot
  <2>1. \A old \in Promotion : old.row_version = expected =>
            LET next == [old EXCEPT !.status = status, !.reviewed_by = actor,
                                    !.row_version = expected + 1]
            IN  next \in Promotion /\ SameRequest(old, next) /\ next.status = status
                /\ next.approval_readiness_snapshot = old.approval_readiness_snapshot
    BY <1>2 DEF Promotion, SameRequest
  <2>2. QED BY <1>1, <1>2, <2>1
<1>4. /\ RecordPromotion(pid, promotions[pid].status, new, actor)
      /\ promotions[pid].status = "PENDING_REVIEW"
      /\ status \in {"REJECTED", "CHANGES_REQUESTED"}
      /\ actor \in Administrators
  BY DEF ReviewPromotion, Reviewable
<1>5. QED BY <1>1, <1>3, <1>4

\* An update records a well-typed promotion, with the reviewer its caller names.
LEMMA UpdatePromotionRecords ==
    ASSUME PromotionTypeOK, NEW pid \in PromotionIds, NEW expected \in RowVersions,
           NEW status \in PromotionStatus, NEW run \in JobRunIds \cup {None},
           NEW reviewer \in Principals \cup {None}, NEW actor \in Principals,
           UpdatePromotion(pid, expected, status, run, reviewer, actor)
    PROVE  /\ pid \in DOMAIN promotions
           /\ ExecutionStep(promotions[pid].status, status)
           /\ promotions[pid].status \in PromotionStatus
           /\ \E promotion \in Promotion :
                 /\ RecordPromotion(pid, promotions[pid].status, promotion, actor)
                 /\ SameRequest(promotions[pid], promotion)
                 /\ promotion.status = status
                 /\ promotion.approval_readiness_snapshot
                        = promotions[pid].approval_readiness_snapshot
                 /\ promotion.reviewed_by = reviewer
                 /\ promotion.promotion_job_run_id = run
<1> DEFINE new == [promotions[pid] EXCEPT !.status = status,
                       !.promotion_job_run_id = run, !.reviewed_by = reviewer,
                       !.row_version = expected + 1]
<1>1. pid \in DOMAIN promotions /\ promotions[pid] \in Promotion
  BY DEF UpdatePromotion, PromotionTypeOK
<1>2. expected + 1 \in RowVersion /\ promotions[pid].row_version = expected
  BY MaxRowVersionAssumption DEF UpdatePromotion, RowVersionMatches, RowVersions, RowVersion
<1>3. new \in Promotion /\ SameRequest(promotions[pid], new) /\ new.status = status
      /\ new.approval_readiness_snapshot = promotions[pid].approval_readiness_snapshot
      /\ new.reviewed_by = reviewer
      /\ new.promotion_job_run_id = run
  <2>1. \A old \in Promotion : old.row_version = expected =>
            LET next == [old EXCEPT !.status = status, !.promotion_job_run_id = run,
                                    !.reviewed_by = reviewer, !.row_version = expected + 1]
            IN  next \in Promotion /\ SameRequest(old, next) /\ next.status = status
                /\ next.approval_readiness_snapshot = old.approval_readiness_snapshot
                /\ next.reviewed_by = reviewer
                /\ next.promotion_job_run_id = run
    BY <1>2 DEF Promotion, SameRequest
  <2>2. QED BY <1>1, <1>2, <2>1
<1>4. /\ RecordPromotion(pid, promotions[pid].status, new, actor)
      /\ ExecutionStep(promotions[pid].status, status)
      /\ promotions[pid].status \in PromotionStatus
  BY <1>1 DEF UpdatePromotion, Promotion
<1>5. QED BY <1>1, <1>3, <1>4

\* The empty store is well typed.
LEMMA InitType == Init => TypeOK
<1> SUFFICES ASSUME Init PROVE TypeOK
  OBVIOUS
<1>1. \A S : EmptyDict \in [DOMAIN EmptyDict -> S] /\ DOMAIN EmptyDict \subseteq S
  BY DEF EmptyDict
<1>2. /\ application_events \in [AppIds -> Seq(RegistrationEvent)]
      /\ evaluation_events \in [EvaluationIds -> Seq(EvaluationEvent)]
      /\ promotion_events \in [PromotionIds -> Seq(PromotionEvent)]
  BY DEF Init
<1>3. QED BY <1>1, <1>2 DEF Init, TypeOK

\* A registration leaves the whole store well typed.
LEMMA RegistrationKeepsTypes ==
    ASSUME TypeOK, SomeRegistration
    PROVE  TypeOK'
<1>1. PICK vid \in VersionIds, v \in Version : RegisterApplication(vid, v)
  <2>1. \A app \in AppIds, env \in Environments, evidence \in Evidence,
           repository \in GitRepositories, now \in Times :
            [application_id |-> app, environment |-> env, evidence |-> evidence,
             git_repository |-> repository, registered_at |-> now,
             is_current |-> TRUE] \in Version
    BY DEF Version
  <2>2. QED BY <2>1 DEF SomeRegistration
<1>2. RegistryTypeOK
  BY TypeOKSplit
<1>3. RegistryTypeOK'
  BY <1>1, <1>2, RegisterType
<1>4. UNCHANGED <<evaluations, evaluation_events, promotions, promotion_events>>
  BY <1>1 DEF RegisterApplication, evaluation_vars, promotion_vars
<1>5. QED BY <1>3, <1>4 DEF RegistryTypeOK, TypeOK

\* Whatever records an evaluation leaves the whole store well typed.
LEMMA EvaluationKeepsTypes ==
    ASSUME TypeOK, NEW eid \in EvaluationIds, NEW previous \in EvaluationStatus \cup {None},
           NEW evaluation \in Evaluation, RecordEvaluation(eid, previous, evaluation)
    PROVE  TypeOK'
<1>1. EvaluationTypeOK'
  BY TypeOKSplit, RecordEvaluationType
<1>2. UNCHANGED <<registry_vars, promotion_vars>>
  BY DEF RecordEvaluation
<1>3. QED BY <1>1, <1>2 DEF EvaluationTypeOK, TypeOK, registry_vars, promotion_vars

\* Whatever records a promotion leaves the whole store well typed.
LEMMA PromotionKeepsTypes ==
    ASSUME TypeOK, NEW pid \in PromotionIds, NEW previous \in PromotionStatus \cup {None},
           NEW promotion \in Promotion, NEW actor \in Principals,
           RecordPromotion(pid, previous, promotion, actor)
    PROVE  TypeOK'
<1>1. PromotionTypeOK'
  BY TypeOKSplit, RecordPromotionType
<1>2. UNCHANGED <<registry_vars, evaluation_vars>>
  BY DEF RecordPromotion
<1>3. QED BY <1>1, <1>2 DEF PromotionTypeOK, TypeOK, registry_vars, evaluation_vars

\* Every operation preserves the type invariant.
LEMMA NextType == TypeOK /\ [Next]_store_vars => TypeOK'
<1> SUFFICES ASSUME TypeOK, [Next]_store_vars PROVE TypeOK'
  OBVIOUS
<1>1. EvaluationTypeOK /\ PromotionTypeOK
  BY TypeOKSplit
<1>2. "PENDING_REVIEW" \in PromotionStatus
  BY DEF PromotionStatus
<1>3. CASE SomeRegistration
  BY <1>3, RegistrationKeepsTypes
<1>4. CASE SomeEvaluationCreated
  BY <1>4, CreateEvaluationRecords, EvaluationKeepsTypes DEF SomeEvaluationCreated
<1>5. CASE SomeEvaluationUpdated
  BY <1>1, <1>5, UpdateEvaluationRecords, EvaluationKeepsTypes DEF SomeEvaluationUpdated
<1>6. CASE SomePromotionRequested
  BY <1>6, CreatePromotionRecords, PromotionKeepsTypes DEF SomePromotionRequested
<1>7. CASE SomePromotionApproved
  BY <1>1, <1>2, <1>7, ApprovePromotionRecords, PromotionKeepsTypes DEF SomePromotionApproved
<1>8. CASE SomePromotionReviewed
  BY <1>1, <1>2, <1>8, ReviewPromotionRecords, PromotionKeepsTypes DEF SomePromotionReviewed
<1>9. CASE SomePromotionUpdated
  BY <1>1, <1>9, UpdatePromotionRecords, PromotionKeepsTypes DEF SomePromotionUpdated
<1>10. CASE UNCHANGED store_vars
  BY <1>10 DEF TypeOK, store_vars, registry_vars, evaluation_vars, promotion_vars
<1>11. QED BY <1>3, <1>4, <1>5, <1>6, <1>7, <1>8, <1>9, <1>10 DEF Next

\* Whatever the callers do, the store holds records its models accept.
THEOREM StoreTyped == Spec => []TypeOK
BY InitType, NextType, PTL DEF Spec

-----------------------------------------------------------------------------
(* The kinds of step *)

EvaluationCreated(eid, new) ==
    /\ eid \notin DOMAIN evaluations
    /\ VersionBelongs(new.application_id, new.application_version_id, new.environment)
    /\ NoActiveEvaluation(new.application_id, new.environment, new.application_version_id)
    /\ new.status = "REQUESTED"
    /\ new.row_version = 1
    /\ RecordEvaluation(eid, None, new)

EvaluationMoved(eid, new) ==
    /\ eid \in DOMAIN evaluations
    /\ EvaluationStep(evaluations[eid].status, new.status)
    /\ new.row_version = evaluations[eid].row_version + 1
    /\ new.application_id = evaluations[eid].application_id
    /\ new.environment = evaluations[eid].environment
    /\ new.application_version_id = evaluations[eid].application_version_id
    /\ RecordEvaluation(eid, evaluations[eid].status, new)

PromotionCreated(pid, new, actor) ==
    /\ pid \notin DOMAIN promotions
    /\ VersionBelongs(new.application_id, new.application_version_id, new.source_environment)
    /\ NoActivePromotion(new.application_id, new.application_version_id, new.target_environment)
    /\ new.status = "PENDING_REVIEW"
    /\ new.row_version = 1
    /\ new.approval_readiness_snapshot = None
    /\ RecordPromotion(pid, None, new, actor)

Backed(promotion) ==
    /\ promotion.approval_readiness_snapshot \in Snapshot
    /\ promotion.approval_readiness_snapshot.ready
    /\ promotion.approval_readiness_snapshot.application_version_id
           = promotion.application_version_id

PromotionMoved(pid, new, actor) ==
    /\ pid \in DOMAIN promotions
    /\ <<promotions[pid].status, new.status>> \in PromotionTransitions
    /\ SameRequest(promotions[pid], new)
    /\ new.status \in ReviewStatus => actor \in Administrators
    /\ new.status = "APPROVED" =>
           /\ Casefold[actor] # Casefold[promotions[pid].requested_by]
           /\ Backed(new)
    /\ new.status # "APPROVED" =>
           new.approval_readiness_snapshot = promotions[pid].approval_readiness_snapshot
    /\ RecordPromotion(pid, promotions[pid].status, new, actor)

\* What the clients of the store can make happen, as those kinds of step.
LEMMA KindsOfStep ==
    ASSUME TypeOK, Next
    PROVE  \/ \E vid \in VersionIds, v \in Version : RegisterApplication(vid, v)
           \/ \E eid \in EvaluationIds, new \in Evaluation : EvaluationCreated(eid, new)
           \/ \E eid \in EvaluationIds, new \in Evaluation : EvaluationMoved(eid, new)
           \/ \E pid \in PromotionIds, new \in Promotion, actor \in Principals :
                  PromotionCreated(pid, new, actor)
           \/ \E pid \in PromotionIds, new \in Promotion, actor \in Principals :
                  PromotionMoved(pid, new, actor)
<1>1. EvaluationTypeOK /\ PromotionTypeOK
  BY TypeOKSplit
<1>2. CASE SomeRegistration
  <2>1. \A app \in AppIds, env \in Environments, evidence \in Evidence,
           repository \in GitRepositories, now \in Times :
            [application_id |-> app, environment |-> env, evidence |-> evidence,
             git_repository |-> repository, registered_at |-> now,
             is_current |-> TRUE] \in Version
    BY DEF Version
  <2>2. QED BY <1>2, <2>1 DEF SomeRegistration
<1>3. CASE SomeEvaluationCreated
  <2>1. PICK eid \in EvaluationIds, app \in AppIds, env \in Environments,
             vid \in VersionIds, now \in Times : CreateEvaluation(eid, app, env, vid, now)
    BY <1>3 DEF SomeEvaluationCreated
  <2>2. PICK new \in Evaluation :
           /\ RecordEvaluation(eid, None, new)
           /\ new.status = "REQUESTED"
           /\ new.row_version = 1
           /\ new.application_id = app
           /\ new.environment = env
           /\ new.application_version_id = vid
    BY <2>1, CreateEvaluationRecords
  <2>3. EvaluationCreated(eid, new)
    BY <2>1, <2>2 DEF CreateEvaluation, EvaluationCreated
  <2>4. QED BY <2>3
<1>4. CASE SomeEvaluationUpdated
  <2>1. PICK eid \in EvaluationIds, expected \in RowVersions,
             status \in EvaluationStatus, run \in JobRunIds \cup {None},
             summary \in Summaries \cup {None} :
             UpdateEvaluation(eid, expected, status, run, summary)
    BY <1>4 DEF SomeEvaluationUpdated
  <2>2. \E new \in Evaluation : EvaluationMoved(eid, new)
    BY <1>1, <2>1, UpdateEvaluationRecords DEF EvaluationMoved
  <2>3. QED BY <2>2
<1>5. CASE SomePromotionRequested
  <2>1. PICK pid \in PromotionIds, app \in AppIds, source \in Environments,
             target \in Environments, vid \in VersionIds, requester \in Principals,
             snapshot \in Snapshot :
             CreatePromotionRequest(pid, app, source, target, vid, requester, snapshot)
    BY <1>5 DEF SomePromotionRequested
  <2>2. PICK new \in Promotion :
           /\ RecordPromotion(pid, None, new, requester)
           /\ new.status = "PENDING_REVIEW"
           /\ new.row_version = 1
           /\ new.application_id = app
           /\ new.source_environment = source
           /\ new.target_environment = target
           /\ new.application_version_id = vid
           /\ new.approval_readiness_snapshot = None
    BY <2>1, CreatePromotionRecords
  <2>3. PromotionCreated(pid, new, requester)
    BY <2>1, <2>2 DEF CreatePromotionRequest, PromotionCreated
  <2>4. QED BY <2>3
<1>6. CASE SomePromotionApproved
  <2>1. PICK pid \in PromotionIds, actor \in Principals, expected \in RowVersions,
             snapshot \in Snapshot \cup {None} :
             ApprovePromotion(pid, actor, expected, snapshot)
    BY <1>6 DEF SomePromotionApproved
  <2>2. <<"PENDING_REVIEW", "APPROVED">> \in PromotionTransitions /\ "APPROVED" \in ReviewStatus
    BY DEF PromotionTransitions, ReviewStatus
  <2>3. PICK new \in Promotion :
           /\ RecordPromotion(pid, "PENDING_REVIEW", new, actor)
           /\ SameRequest(promotions[pid], new)
           /\ new.status = "APPROVED"
           /\ Backed(new)
    BY <1>1, <2>1, ApprovePromotionRecords DEF Backed
  <2>4. /\ pid \in DOMAIN promotions
        /\ promotions[pid].status = "PENDING_REVIEW"
        /\ actor \in Administrators
        /\ Casefold[actor] # Casefold[promotions[pid].requested_by]
    BY <1>1, <2>1, ApprovePromotionRecords
  <2>5. PromotionMoved(pid, new, actor)
    BY <2>2, <2>3, <2>4 DEF PromotionMoved
  <2>6. QED BY <2>5
<1>7. CASE SomePromotionReviewed
  <2>1. PICK pid \in PromotionIds, actor \in Principals, expected \in RowVersions,
             status \in PromotionStatus : ReviewPromotion(pid, actor, expected, status)
    BY <1>7 DEF SomePromotionReviewed
  <2>2. \A to \in {"REJECTED", "CHANGES_REQUESTED"} :
            <<"PENDING_REVIEW", to>> \in PromotionTransitions /\ to # "APPROVED"
            /\ to \in ReviewStatus
    BY DEF PromotionTransitions, ReviewStatus
  <2>3. \E new \in Promotion : PromotionMoved(pid, new, actor)
    BY <1>1, <2>1, <2>2, ReviewPromotionRecords DEF PromotionMoved
  <2>4. QED BY <2>3
<1>8. CASE SomePromotionUpdated
  <2>1. PICK pid \in PromotionIds, expected \in RowVersions, status \in PromotionStatus,
             run \in JobRunIds \cup {None}, reviewer \in Principals \cup {None},
             actor \in Principals :
             UpdatePromotion(pid, expected, status, run, reviewer, actor)
    BY <1>8 DEF SomePromotionUpdated
  <2>2. \A from, to : ExecutionStep(from, to) =>
            <<from, to>> \in PromotionTransitions /\ to \notin ReviewStatus /\ to # "APPROVED"
    BY DEF ExecutionStep, ReviewStatus
  <2>3. \E new \in Promotion : PromotionMoved(pid, new, actor)
    BY <1>1, <2>1, <2>2, UpdatePromotionRecords DEF PromotionMoved
  <2>4. QED BY <2>3
<1>9. QED BY <1>2, <1>3, <1>4, <1>5, <1>6, <1>7, <1>8 DEF Next

-----------------------------------------------------------------------------
(* The registry *)

\* A registration adds one version and takes at most the current flag from
\* another.
VersionsGrow ==
    /\ DOMAIN versions \subseteq DOMAIN versions'
    /\ \A w \in DOMAIN versions :
           versions'[w] \in {versions[w], [versions[w] EXCEPT !.is_current = FALSE]}

\* A registration adds a version and takes at most the is_current flag of another.
LEMMA RegistrationGrows ==
    ASSUME TypeOK, NEW vid \in VersionIds, NEW v \in Version, RegisterApplication(vid, v)
    PROVE  /\ VersionsGrow
           /\ \A w \in DOMAIN versions :
                 versions'[w] = IF /\ Pointer(v) \in DOMAIN current_versions
                                   /\ current_versions[Pointer(v)] = w
                                THEN [versions[w] EXCEPT !.is_current = FALSE]
                                ELSE versions[w]
           /\ DOMAIN versions' = DOMAIN versions \cup {vid}
           /\ vid \notin DOMAIN versions
           /\ versions'[vid] = [v EXCEPT !.is_current = TRUE]
<1>1. vid \notin DOMAIN versions
  BY DEF RegisterApplication, NewEvidence
<1>2. versions' = Put(Demoted(v), vid, [v EXCEPT !.is_current = TRUE])
  BY DEF RegisterApplication
<1>3. DOMAIN Demoted(v) = DOMAIN versions
  BY DEF Demoted, TypeOK
<1>4. \A w \in DOMAIN versions :
          Demoted(v)[w] = IF /\ Pointer(v) \in DOMAIN current_versions
                             /\ current_versions[Pointer(v)] = w
                          THEN [versions[w] EXCEPT !.is_current = FALSE]
                          ELSE versions[w]
  BY DEF Demoted, TypeOK
<1>5. /\ DOMAIN versions' = DOMAIN versions \cup {vid}
      /\ versions'[vid] = [v EXCEPT !.is_current = TRUE]
      /\ \A w \in DOMAIN versions : versions'[w] = Demoted(v)[w]
  BY <1>1, <1>2, <1>3 DEF Put
<1>6. VersionsGrow
  BY <1>4, <1>5 DEF VersionsGrow
<1>7. QED BY <1>1, <1>4, <1>5, <1>6

\* The flag is no part of what identifies a version.
LEMMA FlagAside ==
    ASSUME NEW v \in Version, NEW flag \in BOOLEAN
    PROVE  LET w == [v EXCEPT !.is_current = flag]
           IN  /\ w \in Version
               /\ w.is_current = flag
               /\ w.application_id = v.application_id
               /\ w.environment = v.environment
               /\ VersionKey(w) = VersionKey(v)
               /\ Pointer(w) = Pointer(v)
BY DEF Version, VersionKey, Pointer

\* CurrentVersionsAgree, version by version and pointer by pointer.
PointersAndFlags ==
    /\ \A w \in DOMAIN versions : versions[w].is_current =>
           /\ Pointer(versions[w]) \in DOMAIN current_versions
           /\ current_versions[Pointer(versions[w])] = w
    /\ \A k \in DOMAIN current_versions :
           /\ current_versions[k] \in DOMAIN versions
           /\ versions[current_versions[k]].is_current
           /\ Pointer(versions[current_versions[k]]) = k

\* Agreement of pointers and flags, said version by version.
LEMMA AgreementPointwise == TypeOK => (CurrentVersionsAgree <=> PointersAndFlags)
<1> SUFFICES ASSUME TypeOK PROVE CurrentVersionsAgree <=> PointersAndFlags
  OBVIOUS
<1>1. \A w \in DOMAIN versions :
          /\ versions[w].application_id \in AppIds
          /\ versions[w].environment \in Environments
          /\ Pointer(versions[w]) = <<versions[w].application_id, versions[w].environment>>
  BY DEF TypeOK, Version, Pointer
<1>2. \A k \in DOMAIN current_versions :
          \E app \in AppIds, env \in Environments : k = <<app, env>>
  BY DEF TypeOK
<1>3. ASSUME CurrentVersionsAgree PROVE PointersAndFlags
  <2>1. ASSUME NEW w \in DOMAIN versions, versions[w].is_current
        PROVE  /\ Pointer(versions[w]) \in DOMAIN current_versions
               /\ current_versions[Pointer(versions[w])] = w
    <3> DEFINE app == versions[w].application_id
               env == versions[w].environment
    <3>1. w \in {current_versions[k] : k \in DOMAIN current_versions \cap {<<app, env>>}}
      BY <1>1, <1>3, <2>1 DEF CurrentVersionsAgree
    <3>2. QED BY <1>1, <3>1
  <2>2. ASSUME NEW k \in DOMAIN current_versions
        PROVE  /\ current_versions[k] \in DOMAIN versions
               /\ versions[current_versions[k]].is_current
               /\ Pointer(versions[current_versions[k]]) = k
    <3>1. PICK app \in AppIds, env \in Environments : k = <<app, env>>
      BY <1>2
    <3>2. current_versions[k]
              \in {current_versions[j] : j \in DOMAIN current_versions \cap {<<app, env>>}}
      BY <3>1
    <3>3. current_versions[k]
              \in {w \in DOMAIN versions : /\ versions[w].application_id = app
                                           /\ versions[w].environment = env
                                           /\ versions[w].is_current}
      BY <1>3, <3>2 DEF CurrentVersionsAgree
    <3>4. QED BY <1>1, <3>1, <3>3
  <2>3. QED BY <2>1, <2>2 DEF PointersAndFlags
<1>4. ASSUME PointersAndFlags PROVE CurrentVersionsAgree
  <2> SUFFICES ASSUME NEW app \in AppIds, NEW env \in Environments
               PROVE  {w \in DOMAIN versions : /\ versions[w].application_id = app
                                               /\ versions[w].environment = env
                                               /\ versions[w].is_current}
                      = {current_versions[k] : k \in DOMAIN current_versions \cap {<<app, env>>}}
    BY DEF CurrentVersionsAgree
  <2>1. ASSUME NEW w \in DOMAIN versions, versions[w].application_id = app,
               versions[w].environment = env, versions[w].is_current
        PROVE  \E k \in DOMAIN current_versions \cap {<<app, env>>} : w = current_versions[k]
    BY <1>1, <1>4, <2>1 DEF PointersAndFlags
  <2>2. ASSUME NEW k \in DOMAIN current_versions \cap {<<app, env>>}
        PROVE  /\ current_versions[k] \in DOMAIN versions
               /\ versions[current_versions[k]].application_id = app
               /\ versions[current_versions[k]].environment = env
               /\ versions[current_versions[k]].is_current
    BY <1>1, <1>4 DEF PointersAndFlags
  <2>3. QED BY <2>1, <2>2
<1>5. QED BY <1>3, <1>4

\* A registration moves pointer and flags together,
LEMMA RegistrationAgrees ==
    ASSUME TypeOK, PointersAndFlags, NEW vid \in VersionIds, NEW v \in Version,
           RegisterApplication(vid, v)
    PROVE  PointersAndFlags'
<1>1. current_versions' = Put(current_versions, Pointer(v), vid)
  BY DEF RegisterApplication
<1>2. /\ DOMAIN current_versions' = DOMAIN current_versions \cup {Pointer(v)}
      /\ current_versions'[Pointer(v)] = vid
      /\ \A k \in DOMAIN current_versions :
             k # Pointer(v) => current_versions'[k] = current_versions[k]
  BY <1>1 DEF Put
<1>3. /\ DOMAIN versions' = DOMAIN versions \cup {vid}
      /\ vid \notin DOMAIN versions
      /\ versions'[vid].is_current
      /\ Pointer(versions'[vid]) = Pointer(v)
  BY ZenonT(40), RegistrationGrows, FlagAside
<1>4. ASSUME NEW w \in DOMAIN versions
      PROVE  /\ Pointer(versions'[w]) = Pointer(versions[w])
             /\ versions'[w].is_current =>
                    versions[w].is_current /\ Pointer(versions[w]) # Pointer(v)
             /\ versions[w].is_current /\ Pointer(versions[w]) # Pointer(v)
                    => versions'[w].is_current
  <2>1. versions[w] \in Version
    BY DEF TypeOK
  <2>2. CASE /\ Pointer(v) \in DOMAIN current_versions
             /\ current_versions[Pointer(v)] = w
    <3>1. versions'[w] = [versions[w] EXCEPT !.is_current = FALSE]
      BY <2>2, RegistrationGrows
    <3>2. ~ versions'[w].is_current /\ Pointer(versions'[w]) = Pointer(versions[w])
      BY <2>1, <3>1, FlagAside
    <3>3. Pointer(versions[w]) = Pointer(v)
      BY <2>2 DEF PointersAndFlags
    <3>4. QED BY <3>2, <3>3
  <2>3. CASE ~ (/\ Pointer(v) \in DOMAIN current_versions
                /\ current_versions[Pointer(v)] = w)
    <3>1. versions'[w] = versions[w]
      BY <2>3, RegistrationGrows
    <3>2. versions[w].is_current => Pointer(versions[w]) # Pointer(v)
      BY <2>3 DEF PointersAndFlags
    <3>3. QED BY <3>1, <3>2
  <2>4. QED BY <2>2, <2>3
<1>5. ASSUME NEW w \in DOMAIN versions', versions'[w].is_current
      PROVE  /\ Pointer(versions'[w]) \in DOMAIN current_versions'
             /\ current_versions'[Pointer(versions'[w])] = w
  BY <1>2, <1>3, <1>4, <1>5 DEF PointersAndFlags
<1>6. ASSUME NEW k \in DOMAIN current_versions'
      PROVE  /\ current_versions'[k] \in DOMAIN versions'
             /\ versions'[current_versions'[k]].is_current
             /\ Pointer(versions'[current_versions'[k]]) = k
  BY <1>2, <1>3, <1>4 DEF PointersAndFlags
<1>7. QED BY <1>5, <1>6 DEF PointersAndFlags

\* A registration files the new version under the one key it was missing from.
LEMMA RegistrationIndexes ==
    ASSUME TypeOK, EvidenceRegisteredOnce, NEW vid \in VersionIds, NEW v \in Version,
           RegisterApplication(vid, v)
    PROVE  EvidenceRegisteredOnce'
<1>1. version_keys' = Put(version_keys, VersionKey(v), vid)
      /\ VersionKey(v) \notin DOMAIN version_keys
  BY DEF RegisterApplication, NewEvidence
<1>2. /\ DOMAIN version_keys' = DOMAIN version_keys \cup {VersionKey(v)}
      /\ version_keys'[VersionKey(v)] = vid
      /\ \A k \in DOMAIN version_keys : version_keys'[k] = version_keys[k]
  BY <1>1 DEF Put
<1>3. /\ DOMAIN versions' = DOMAIN versions \cup {vid}
      /\ vid \notin DOMAIN versions
      /\ VersionKey(versions'[vid]) = VersionKey(v)
  BY ZenonT(40), RegistrationGrows, FlagAside
<1>4. \A w \in DOMAIN versions : VersionKey(versions'[w]) = VersionKey(versions[w])
  BY RegistrationGrows, FlagAside DEF TypeOK
<1>5. DOMAIN version_keys' = {VersionKey(versions'[w]) : w \in DOMAIN versions'}
  BY <1>2, <1>3, <1>4 DEF EvidenceRegisteredOnce
<1>6. \A w \in DOMAIN versions' : version_keys'[VersionKey(versions'[w])] = w
  BY <1>2, <1>3, <1>4 DEF EvidenceRegisteredOnce
<1>7. QED BY <1>5, <1>6 DEF EvidenceRegisteredOnce

-----------------------------------------------------------------------------
(* Workflows and the versions they are about *)

\* What belongs to a stored version goes on belonging to it: a registration
\* changes neither the application nor the environment of a version.
LEMMA BelongingLasts ==
    ASSUME TypeOK, NEW vid \in VersionIds, NEW v \in Version, RegisterApplication(vid, v),
           NEW app, NEW w, NEW env, VersionBelongs(app, w, env)
    PROVE  VersionBelongs(app, w, env)'
<1>1. app \in DOMAIN applications'
  BY DEF RegisterApplication, Put, VersionBelongs
<1>2. w \in DOMAIN versions /\ versions[w] \in Version
  BY DEF TypeOK, VersionBelongs
<1>3. /\ w \in DOMAIN versions'
      /\ versions'[w].application_id = versions[w].application_id
      /\ versions'[w].environment = versions[w].environment
  BY <1>2, RegistrationGrows, FlagAside DEF VersionsGrow
<1>4. QED BY <1>1, <1>3 DEF VersionBelongs

\* A new evaluation is the only active one of its version: another would have
\* the same application and environment, which are the version's own.
LEMMA EvaluationCreatedAlone ==
    ASSUME TypeOK, WorkflowsBelong, OneActiveEvaluation,
           NEW eid \in EvaluationIds, NEW new \in Evaluation, EvaluationCreated(eid, new)
    PROVE  OneActiveEvaluation'
<1>1. /\ DOMAIN evaluations' = DOMAIN evaluations \cup {eid}
      /\ evaluations'[eid] = new
      /\ \A e \in DOMAIN evaluations : evaluations'[e] = evaluations[e]
  BY DEF EvaluationCreated, RecordEvaluation, Put
<1>2. ASSUME NEW e \in DOMAIN evaluations, evaluations[e].status \in ActiveEvaluation
      PROVE  evaluations[e].application_version_id # new.application_version_id
  <2>1. VersionBelongs(evaluations[e].application_id,
                       evaluations[e].application_version_id, evaluations[e].environment)
    BY DEF WorkflowsBelong, IsVersionOf, VersionBelongs
  <2>2. VersionBelongs(new.application_id, new.application_version_id, new.environment)
    BY DEF EvaluationCreated
  <2>3. ~ /\ evaluations[e].application_id = new.application_id
          /\ evaluations[e].environment = new.environment
          /\ evaluations[e].application_version_id = new.application_version_id
    BY <1>2 DEF EvaluationCreated, NoActiveEvaluation
  <2>4. QED BY <2>1, <2>2, <2>3 DEF VersionBelongs
<1>3. QED BY <1>1, <1>2 DEF OneActiveEvaluation

\* An evaluation that moves does not become active.
LEMMA EvaluationMovedAlone ==
    ASSUME TypeOK, OneActiveEvaluation,
           NEW eid \in EvaluationIds, NEW new \in Evaluation, EvaluationMoved(eid, new)
    PROVE  OneActiveEvaluation'
<1>1. /\ DOMAIN evaluations' = DOMAIN evaluations
      /\ evaluations'[eid] = new
      /\ \A e \in DOMAIN evaluations : e # eid => evaluations'[e] = evaluations[e]
  BY DEF EvaluationMoved, RecordEvaluation, Put
<1>2. new.status \in ActiveEvaluation => evaluations[eid].status \in ActiveEvaluation
  BY DEF EvaluationMoved, EvaluationStep, EvaluationTransitions, ActiveEvaluation
<1>3. new.application_version_id = evaluations[eid].application_version_id
      /\ eid \in DOMAIN evaluations
  BY DEF EvaluationMoved
<1>4. \A e \in DOMAIN evaluations :
          /\ evaluations'[e].application_version_id = evaluations[e].application_version_id
          /\ evaluations'[e].status \in ActiveEvaluation
                 => evaluations[e].status \in ActiveEvaluation
  BY <1>1, <1>2, <1>3
<1>5. QED BY <1>1, <1>4 DEF OneActiveEvaluation

\* The same of promotions,
LEMMA PromotionCreatedAlone ==
    ASSUME TypeOK, WorkflowsBelong, OneActivePromotion, NEW pid \in PromotionIds,
           NEW new \in Promotion, NEW actor \in Principals, PromotionCreated(pid, new, actor)
    PROVE  OneActivePromotion'
<1>1. /\ DOMAIN promotions' = DOMAIN promotions \cup {pid}
      /\ promotions'[pid] = new
      /\ \A p \in DOMAIN promotions : promotions'[p] = promotions[p]
  BY DEF PromotionCreated, RecordPromotion, Put
<1>2. ASSUME NEW p \in DOMAIN promotions, promotions[p].status \in ActivePromotion
      PROVE  \/ promotions[p].application_version_id # new.application_version_id
             \/ promotions[p].target_environment # new.target_environment
  <2>1. VersionBelongs(promotions[p].application_id,
                       promotions[p].application_version_id, promotions[p].source_environment)
    BY DEF WorkflowsBelong, IsVersionOf, VersionBelongs
  <2>2. VersionBelongs(new.application_id, new.application_version_id, new.source_environment)
    BY DEF PromotionCreated
  <2>3. ~ /\ promotions[p].application_id = new.application_id
          /\ promotions[p].application_version_id = new.application_version_id
          /\ promotions[p].target_environment = new.target_environment
    BY <1>2 DEF PromotionCreated, NoActivePromotion
  <2>4. QED BY <2>1, <2>2, <2>3 DEF VersionBelongs
<1>3. QED BY <1>1, <1>2 DEF OneActivePromotion

\* where changes requested and a new review are both active.
LEMMA PromotionMovedAlone ==
    ASSUME TypeOK, OneActivePromotion, NEW pid \in PromotionIds,
           NEW new \in Promotion, NEW actor \in Principals, PromotionMoved(pid, new, actor)
    PROVE  OneActivePromotion'
<1>1. /\ DOMAIN promotions' = DOMAIN promotions
      /\ promotions'[pid] = new
      /\ \A p \in DOMAIN promotions : p # pid => promotions'[p] = promotions[p]
  BY DEF PromotionMoved, RecordPromotion, Put
<1>2. new.status \in ActivePromotion => promotions[pid].status \in ActivePromotion
  BY DEF PromotionMoved, PromotionTransitions, ActivePromotion
<1>3. /\ new.application_version_id = promotions[pid].application_version_id
      /\ new.target_environment = promotions[pid].target_environment
      /\ pid \in DOMAIN promotions
  BY DEF PromotionMoved, SameRequest
<1>4. \A p \in DOMAIN promotions :
          /\ promotions'[p].application_version_id = promotions[p].application_version_id
          /\ promotions'[p].target_environment = promotions[p].target_environment
          /\ promotions'[p].status \in ActivePromotion
                 => promotions[p].status \in ActivePromotion
  BY <1>1, <1>2, <1>3
<1>5. QED BY <1>1, <1>4 DEF OneActivePromotion

-----------------------------------------------------------------------------
(* The audit trails *)

\* A trail that tells a status tells the next one once its event is appended.
LEMMA TrailExtended ==
    ASSUME NEW E, NEW trail \in Seq(E), NEW event \in E, NEW old, NEW new,
           old.row_version \in Nat, TellsStatus(trail, old),
           new.row_version = old.row_version + 1,
           event.previous_state = old.status, event.new_state = new.status
    PROVE  TellsStatus(Append(trail, event), new)
<1> DEFINE longer == Append(trail, event)
<1>1. /\ Len(trail) \in Nat /\ Len(longer) = Len(trail) + 1
      /\ Len(trail) = old.row_version /\ Len(trail) # 0
  BY DEF TellsStatus
<1>2. \A i \in 1 .. Len(trail) : longer[i] = trail[i]
  OBVIOUS
<1>3. longer[Len(trail) + 1] = event
  OBVIOUS
<1>4. longer # << >> /\ Len(longer) = new.row_version
  BY <1>1
<1> HIDE DEF longer
<1>5. longer[1].previous_state = None
  BY <1>1, <1>2 DEF TellsStatus
<1>6. longer[Len(longer)].new_state = new.status
  BY <1>1, <1>3
<1>7. ASSUME NEW i \in 2 .. Len(longer)
      PROVE  longer[i].previous_state = longer[i - 1].new_state
  <2>1. CASE i \in 2 .. Len(trail)
    <3>1. trail[i].previous_state = trail[i - 1].new_state
      BY <2>1 DEF TellsStatus
    <3>2. longer[i] = trail[i] /\ longer[i - 1] = trail[i - 1]
      BY <1>1, <1>2, <2>1
    <3>3. QED BY <3>1, <3>2
  <2>2. CASE i = Len(trail) + 1
    <3>1. longer[i] = event /\ longer[i - 1] = trail[Len(trail)]
      BY <1>1, <1>2, <1>3, <2>2
    <3>2. QED BY <3>1 DEF TellsStatus
  <2>3. QED BY <1>1, <2>1, <2>2
<1>8. TellsStatus(longer, new)
  BY <1>4, <1>5, <1>6, <1>7 DEF TellsStatus
<1>9. QED BY <1>8 DEF longer

\* The first event of a record starts its trail.
LEMMA TrailStarted ==
    ASSUME NEW event, NEW new, new.row_version = 1, event.previous_state = None,
           event.new_state = new.status
    PROVE  TellsStatus(Append(<< >>, event), new)
BY DEF TellsStatus

\* Recording an evaluation extends its trail by the step it took.
LEMMA EvaluationTrailKept ==
    ASSUME TypeOK, EvaluationTrail, NEW eid \in EvaluationIds, NEW new \in Evaluation,
           EvaluationCreated(eid, new) \/ EvaluationMoved(eid, new)
    PROVE  EvaluationTrail'
<1>1. /\ DOMAIN evaluations' = DOMAIN evaluations \cup {eid}
      /\ evaluations'[eid] = new
      /\ \A e \in DOMAIN evaluations : e # eid => evaluations'[e] = evaluations[e]
      /\ \A e \in EvaluationIds : e # eid => evaluation_events'[e] = evaluation_events[e]
  BY DEF EvaluationCreated, EvaluationMoved, RecordEvaluation, Put, TypeOK
<1>2. TellsStatus(evaluation_events'[eid], new)
  <2>1. CASE EvaluationCreated(eid, new)
    <3> DEFINE event == [previous_state |-> None, new_state |-> new.status]
    <3>1. evaluation_events'[eid] = Append(<< >>, event)
      BY <2>1 DEF EvaluationCreated, RecordEvaluation, EvaluationTrail, TypeOK
    <3>2. new.row_version = 1 /\ event.previous_state = None /\ event.new_state = new.status
      BY <2>1 DEF EvaluationCreated
    <3> HIDE DEF event
    <3>3. QED BY <3>1, <3>2, TrailStarted
  <2>2. CASE EvaluationMoved(eid, new)
    <3> DEFINE old == evaluations[eid]
               trail == evaluation_events[eid]
               event == [previous_state |-> old.status, new_state |-> new.status]
    <3>1. evaluation_events'[eid] = Append(trail, event)
      BY <2>2 DEF EvaluationMoved, RecordEvaluation, TypeOK
    <3>2. old \in Evaluation /\ trail \in Seq(EvaluationEvent)
      BY <2>2 DEF EvaluationMoved, TypeOK
    <3>3. event \in EvaluationEvent /\ old.row_version \in Nat
      BY <3>2 DEF EvaluationEvent, Evaluation, RowVersion
    <3>4. TellsStatus(trail, old) /\ new.row_version = old.row_version + 1
      BY <2>2 DEF EvaluationMoved, EvaluationTrail
    <3>5. event.previous_state = old.status /\ event.new_state = new.status
      OBVIOUS
    <3> HIDE DEF event, trail, old
    <3>6. QED BY <3>1, <3>2, <3>3, <3>4, <3>5, TrailExtended
  <2>3. QED BY <2>1, <2>2
<1>3. QED BY <1>1, <1>2 DEF EvaluationTrail

\* An event after the outcome tells the outcome again, and success follows RUNNING.
LEMMA OutcomeFinalKept ==
    ASSUME TypeOK, EvaluationTrail, OutcomeFinal, NEW eid \in EvaluationIds,
           NEW new \in Evaluation, EvaluationCreated(eid, new) \/ EvaluationMoved(eid, new)
    PROVE  OutcomeFinal'
<1> DEFINE Decided(trail, j) ==
               /\ \A i \in 1 .. j - 1 : trail[i].new_state \notin ActiveEvaluation
                                            => trail[j].new_state = trail[i].new_state
               /\ trail[j].new_state = "SUCCEEDED"
                      => \E i \in 1 .. j - 1 : trail[i].new_state = "RUNNING"
           trail == evaluation_events[eid]
           longer == evaluation_events'[eid]
           last == Len(trail) + 1
<1>1. \A e \in EvaluationIds : \A j \in DOMAIN evaluation_events[e] :
          Decided(evaluation_events[e], j)
  BY DEF OutcomeFinal
<1>2. PICK event \in EvaluationEvent :
          longer = Append(trail, event) /\ event.new_state = new.status
  <2> DEFINE eventOf(previous) == [previous_state |-> previous, new_state |-> new.status]
  <2>1. PICK previous \in EvaluationStatus \cup {None} : RecordEvaluation(eid, previous, new)
    BY DEF EvaluationCreated, EvaluationMoved, TypeOK, Evaluation
  <2>2. eventOf(previous) \in EvaluationEvent /\ eventOf(previous).new_state = new.status
    BY DEF EvaluationEvent, Evaluation
  <2>3. longer = Append(trail, eventOf(previous))
    BY <2>1 DEF RecordEvaluation, TypeOK
  <2> HIDE DEF eventOf
  <2>4. QED BY <2>2, <2>3
<1>3. trail \in Seq(EvaluationEvent) /\ Len(trail) \in Nat /\ DOMAIN trail = 1 .. Len(trail)
  BY DEF TypeOK
<1>4. /\ DOMAIN longer = 1 .. last /\ longer[last].new_state = new.status
      /\ \A i \in 1 .. last - 1 : i \in DOMAIN trail /\ longer[i] = trail[i]
  BY <1>2, <1>3
<1>5. Decided(longer, last)
  <2>1. CASE EvaluationCreated(eid, new)
    <3>1. trail = << >> /\ new.status = "REQUESTED"
      BY <2>1 DEF EvaluationCreated, EvaluationTrail
    <3>2. QED BY <1>4, <3>1
  <2>2. CASE EvaluationMoved(eid, new)
    <3> DEFINE old == evaluations[eid]
    <3>1. /\ EvaluationStep(old.status, new.status)
          /\ Len(trail) \in DOMAIN trail
          /\ trail[Len(trail)].new_state = old.status
      BY <1>3, <2>2 DEF EvaluationMoved, EvaluationTrail, TellsStatus
    <3>2. Decided(trail, Len(trail))
      BY <1>1, <3>1
    <3>3. old.status \notin ActiveEvaluation => new.status = old.status
      BY <3>1 DEF EvaluationStep, EvaluationTransitions, ActiveEvaluation
    <3>4. new.status = "SUCCEEDED" => old.status \in {"RUNNING", "SUCCEEDED"}
      BY <3>1 DEF EvaluationStep, EvaluationTransitions
    <3>5. /\ Len(trail) \in 1 .. last - 1
          /\ \A i \in 1 .. last - 1 : i = Len(trail) \/ i \in 1 .. Len(trail) - 1
          /\ \A i \in 1 .. Len(trail) - 1 : i \in 1 .. last - 1
      BY <1>3, <3>1
    <3> HIDE DEF old, trail, longer, last
    <3>6. ASSUME NEW i \in 1 .. last - 1, longer[i].new_state \notin ActiveEvaluation
          PROVE  longer[last].new_state = longer[i].new_state
      <4>1. trail[i].new_state \notin ActiveEvaluation /\ longer[i] = trail[i]
        BY <1>4, <3>6
      <4>2. old.status = trail[i].new_state
        BY <3>1, <3>2, <3>5, <4>1
      <4>3. QED BY <1>4, <3>3, <4>1, <4>2
    <3>7. ASSUME longer[last].new_state = "SUCCEEDED"
          PROVE  \E i \in 1 .. last - 1 : longer[i].new_state = "RUNNING"
      <4>1. CASE old.status = "RUNNING"
        BY <1>4, <3>1, <3>5, <4>1
      <4>2. CASE old.status = "SUCCEEDED"
        <5>1. PICK i \in 1 .. Len(trail) - 1 : trail[i].new_state = "RUNNING"
          BY <3>1, <3>2, <4>2
        <5>2. QED BY <1>4, <3>5, <5>1
      <4>3. QED BY <1>4, <3>4, <3>7, <4>1, <4>2
    <3>8. QED BY <3>6, <3>7
  <2>3. QED BY <2>1, <2>2
<1>6. ASSUME NEW j \in DOMAIN longer PROVE Decided(longer, j)
  <2>1. CASE j = last
    BY <1>5, <2>1
  <2>2. CASE j # last
    <3>1. j \in 1 .. last - 1 /\ \A i \in 1 .. j - 1 : i \in 1 .. last - 1
      BY <1>3, <1>4, <2>2
    <3>2. Decided(trail, j)
      BY <1>1, <1>4, <3>1
    <3>3. longer[j] = trail[j] /\ \A i \in 1 .. j - 1 : longer[i] = trail[i]
      BY <1>4, <3>1
    <3> HIDE DEF trail, longer, last
    <3>4. QED BY <3>2, <3>3
  <2>3. QED BY <2>1, <2>2
<1>7. \A e \in EvaluationIds : e # eid => evaluation_events'[e] = evaluation_events[e]
  BY DEF EvaluationCreated, EvaluationMoved, RecordEvaluation, TypeOK
<1>8. \A e \in EvaluationIds : \A j \in DOMAIN evaluation_events'[e] :
          Decided(evaluation_events'[e], j)
  <2> HIDE DEF Decided
  <2>1. QED BY <1>1, <1>6, <1>7
<1>9. QED BY <1>8 DEF OutcomeFinal

\* The event of a promotion appended to its trail.
LEMMA PromotionEventAppended ==
    ASSUME TypeOK, NEW pid \in PromotionIds, NEW previous, NEW new, NEW actor,
           RecordPromotion(pid, previous, new, actor)
    PROVE  /\ DOMAIN promotions' = DOMAIN promotions \cup {pid}
           /\ promotions'[pid] = new
           /\ \A p \in DOMAIN promotions : p # pid => promotions'[p] = promotions[p]
           /\ promotion_events'[pid] =
                  Append(promotion_events[pid], PromotionEventOf(previous, new, actor))
           /\ \A p \in PromotionIds : p # pid => promotion_events'[p] = promotion_events[p]
BY DEF RecordPromotion, Put, TypeOK

\* Recording a promotion extends its trail likewise.
LEMMA PromotionTrailKept ==
    ASSUME TypeOK, PromotionTrail, NEW pid \in PromotionIds, NEW new \in Promotion,
           NEW actor \in Principals,
           PromotionCreated(pid, new, actor) \/ PromotionMoved(pid, new, actor)
    PROVE  PromotionTrail'
<1>1. /\ DOMAIN promotions' = DOMAIN promotions \cup {pid}
      /\ promotions'[pid] = new
      /\ \A p \in DOMAIN promotions : p # pid => promotions'[p] = promotions[p]
      /\ \A p \in PromotionIds : p # pid => promotion_events'[p] = promotion_events[p]
  <2>1. PICK previous \in PromotionStatus \cup {None} :
            RecordPromotion(pid, previous, new, actor)
    BY DEF PromotionCreated, PromotionMoved, TypeOK, Promotion
  <2>2. QED BY <2>1, PromotionEventAppended
<1>2. TellsStatus(promotion_events'[pid], new)
  <2>1. CASE PromotionCreated(pid, new, actor)
    <3> DEFINE event == PromotionEventOf(None, new, actor)
    <3>1. promotion_events'[pid] = Append(promotion_events[pid], event)
      BY ZenonT(40), <2>1, PromotionEventAppended DEF PromotionCreated
    <3>2. promotion_events[pid] = << >>
      BY <2>1 DEF PromotionCreated, PromotionTrail
    <3>3. new.row_version = 1 /\ event.previous_state = None /\ event.new_state = new.status
      BY <2>1 DEF PromotionCreated, PromotionEventOf
    <3> HIDE DEF event
    <3>4. QED BY <3>1, <3>2, <3>3, TrailStarted
  <2>2. CASE PromotionMoved(pid, new, actor)
    <3> DEFINE old == promotions[pid]
               trail == promotion_events[pid]
               event == PromotionEventOf(old.status, new, actor)
    <3>1. promotion_events'[pid] = Append(trail, event)
      BY <2>2 DEF PromotionMoved, RecordPromotion, TypeOK
    <3>2. old \in Promotion /\ trail \in Seq(PromotionEvent)
      BY <2>2 DEF PromotionMoved, TypeOK
    <3>3. event \in PromotionEvent /\ old.row_version \in Nat
      BY <3>2 DEF PromotionEvent, Promotion, PromotionEventOf, RowVersion
    <3>4. TellsStatus(trail, old) /\ new.row_version = old.row_version + 1
      BY <2>2 DEF PromotionMoved, PromotionTrail, SameRequest
    <3>5. event.previous_state = old.status /\ event.new_state = new.status
      BY DEF PromotionEventOf
    <3> HIDE DEF event, trail, old
    <3>6. QED BY <3>1, <3>2, <3>3, <3>4, <3>5, TrailExtended
  <2>3. QED BY <2>1, <2>2
<1>3. QED BY <1>1, <1>2 DEF PromotionTrail

\* What an event appended to a trail leaves of the others.
LEMMA AppendedEvent ==
    ASSUME NEW E, NEW trail \in Seq(E), NEW event \in E
    PROVE  /\ DOMAIN trail \subseteq DOMAIN Append(trail, event)
           /\ \A i \in DOMAIN trail : Append(trail, event)[i] = trail[i]
           /\ Len(trail) + 1 \in DOMAIN Append(trail, event)
           /\ Append(trail, event)[Len(trail) + 1] = event
           /\ \A i \in DOMAIN Append(trail, event) :
                  i \in DOMAIN trail \/ Append(trail, event)[i] = event
OBVIOUS

-----------------------------------------------------------------------------
(* Reviews *)

\* Approvals and other reviews meet the four-eyes rule when they are recorded,
\* and the requester they are held against never changes.
LEMMA FourEyesKept ==
    ASSUME TypeOK, PromotionTrail, FourEyes, NEW pid \in PromotionIds,
           NEW new \in Promotion, NEW actor \in Principals,
           PromotionCreated(pid, new, actor) \/ PromotionMoved(pid, new, actor)
    PROVE  FourEyes'
<1> DEFINE event(previous) == PromotionEventOf(previous, new, actor)
           Fine(e, promotion) ==
               /\ e.new_state \in ReviewStatus => e.actor_principal \in Administrators
               /\ e.new_state = "APPROVED"
                      => Casefold[e.actor_principal] # Casefold[promotion.requested_by]
<1>1. PICK previous \in PromotionStatus \cup {None} : RecordPromotion(pid, previous, new, actor)
  BY DEF PromotionCreated, PromotionMoved, TypeOK, Promotion
<1>2. event(previous) \in PromotionEvent /\ promotion_events[pid] \in Seq(PromotionEvent)
  BY DEF TypeOK, PromotionEvent, Promotion, PromotionEventOf
<1>3. Fine(event(previous), new)
  <2>1. event(previous).new_state = new.status /\ event(previous).actor_principal = actor
    BY DEF PromotionEventOf
  <2>2. PromotionMoved(pid, new, actor) => new.requested_by = promotions[pid].requested_by
    BY DEF PromotionMoved, SameRequest
  <2>3. QED BY <2>1, <2>2 DEF PromotionCreated, PromotionMoved, ReviewStatus
<1>4. \A i \in DOMAIN promotion_events[pid] : Fine(promotion_events[pid][i], new)
  <2>1. CASE PromotionCreated(pid, new, actor)
    <3>1. promotion_events[pid] = << >>
      BY <2>1 DEF PromotionCreated, PromotionTrail
    <3>2. QED BY <3>1
  <2>2. CASE PromotionMoved(pid, new, actor)
    <3>1. pid \in DOMAIN promotions /\ new.requested_by = promotions[pid].requested_by
      BY <2>2 DEF PromotionMoved, SameRequest
    <3>2. QED BY <3>1 DEF FourEyes
  <2>3. QED BY <2>1, <2>2
<1> HIDE DEF event
<1>5. promotion_events'[pid] = Append(promotion_events[pid], event(previous))
  BY <1>1 DEF event, RecordPromotion, TypeOK
<1>6. \A i \in DOMAIN promotion_events'[pid] : Fine(promotion_events'[pid][i], new)
  <2> HIDE DEF Fine
  <2>1. QED BY <1>2, <1>3, <1>4, <1>5, AppendedEvent
<1>7. \A p \in DOMAIN promotions' : \A i \in DOMAIN promotion_events'[p] :
          Fine(promotion_events'[p][i], promotions'[p])
  <2>1. \A p \in DOMAIN promotions : \A i \in DOMAIN promotion_events[p] :
            Fine(promotion_events[p][i], promotions[p])
    BY DEF FourEyes
  <2>2. DOMAIN promotions \subseteq PromotionIds
    BY DEF TypeOK
  <2>3. /\ DOMAIN promotions' = DOMAIN promotions \cup {pid}
        /\ promotions'[pid] = new
        /\ \A p \in DOMAIN promotions : p # pid => promotions'[p] = promotions[p]
        /\ \A p \in PromotionIds : p # pid => promotion_events'[p] = promotion_events[p]
    BY <1>1, PromotionEventAppended
  <2> HIDE DEF Fine
  <2>4. ASSUME NEW p \in DOMAIN promotions', NEW i \in DOMAIN promotion_events'[p]
        PROVE  Fine(promotion_events'[p][i], promotions'[p])
    <3>1. CASE p = pid
      BY <1>6, <2>3, <2>4, <3>1
    <3>2. CASE p # pid
      BY <2>1, <2>2, <2>3, <2>4, <3>2
    <3>3. QED BY <3>1, <3>2
  <2>5. QED BY <2>4
<1>8. QED BY <1>7 DEF FourEyes

\* Approval evidence is ready and about the promotion's version when it is
\* stored, and stored together with the event of the approval.
LEMMA ApprovalBackedKept ==
    ASSUME TypeOK, ApprovalBacked, PromotionTrail, NEW pid \in PromotionIds,
           NEW new \in Promotion, NEW actor \in Principals,
           PromotionCreated(pid, new, actor) \/ PromotionMoved(pid, new, actor)
    PROVE  ApprovalBacked'
<1> DEFINE Approved(trail) == \E i \in DOMAIN trail : trail[i].new_state = "APPROVED"
           Undecided == {"PENDING_REVIEW", "CHANGES_REQUESTED", "REJECTED"}
           Good(promotion, trail) ==
               IF promotion.approval_readiness_snapshot \in Snapshot
               THEN Approved(trail) /\ Backed(promotion) /\ promotion.status \notin Undecided
               ELSE ~ Approved(trail) /\ promotion.status \notin NeedsApprovalEvidence
<1>1. \A p \in DOMAIN promotions : Good(promotions[p], promotion_events[p])
  BY DEF ApprovalBacked, Backed
<1>2. PICK previous \in PromotionStatus \cup {None} : RecordPromotion(pid, previous, new, actor)
  BY DEF PromotionCreated, PromotionMoved, TypeOK, Promotion
<1>3. /\ PromotionEventOf(previous, new, actor) \in PromotionEvent
      /\ promotion_events[pid] \in Seq(PromotionEvent)
      /\ promotion_events'[pid]
             = Append(promotion_events[pid], PromotionEventOf(previous, new, actor))
  BY <1>2 DEF TypeOK, PromotionEvent, Promotion, PromotionEventOf, RecordPromotion
<1>4. Approved(promotion_events'[pid])
          <=> Approved(promotion_events[pid]) \/ new.status = "APPROVED"
  <2>1. PromotionEventOf(previous, new, actor).new_state = new.status
    BY DEF PromotionEventOf
  <2>2. QED BY <1>3, <2>1, AppendedEvent
<1>5. Good(new, promotion_events'[pid])
  <2> HIDE DEF Approved
  <2>1. CASE PromotionCreated(pid, new, actor)
    <3>1. ~ Approved(promotion_events[pid])
      <4>1. promotion_events[pid] = << >>
        BY <2>1 DEF PromotionCreated, PromotionTrail
      <4>2. QED BY <4>1 DEF Approved
    <3>2. new.status = "PENDING_REVIEW" /\ new.approval_readiness_snapshot = None
      BY <2>1 DEF PromotionCreated
    <3>3. QED BY <1>4, <3>1, <3>2, NoneAssumption DEF NeedsApprovalEvidence
  <2>2. CASE PromotionMoved(pid, new, actor) /\ new.status = "APPROVED"
    BY <1>4, <2>2 DEF PromotionMoved, Backed
  <2>3. CASE PromotionMoved(pid, new, actor) /\ new.status # "APPROVED"
    <3>1. /\ <<promotions[pid].status, new.status>> \in PromotionTransitions
          /\ new.approval_readiness_snapshot = promotions[pid].approval_readiness_snapshot
          /\ new.application_version_id = promotions[pid].application_version_id
          /\ Good(promotions[pid], promotion_events[pid])
      BY <1>1, <2>3 DEF PromotionMoved, SameRequest
    <3>2. /\ promotions[pid].status \notin Undecided => new.status \notin Undecided
          /\ promotions[pid].status \notin NeedsApprovalEvidence
                 => new.status \notin NeedsApprovalEvidence
      BY <2>3, <3>1 DEF PromotionTransitions, NeedsApprovalEvidence
    <3> HIDE DEF Undecided
    <3>3. QED BY <1>4, <2>3, <3>1, <3>2 DEF Backed
  <2>4. QED BY <2>1, <2>2, <2>3
<1>6. \A p \in DOMAIN promotions' : Good(promotions'[p], promotion_events'[p])
  <2>1. /\ DOMAIN promotions' = DOMAIN promotions \cup {pid}
        /\ promotions'[pid] = new
        /\ \A p \in DOMAIN promotions : p # pid => promotions'[p] = promotions[p]
        /\ \A p \in PromotionIds : p # pid => promotion_events'[p] = promotion_events[p]
    BY <1>2, PromotionEventAppended
  <2>2. DOMAIN promotions \subseteq PromotionIds
    BY DEF TypeOK
  <2> HIDE DEF Good
  <2>3. QED BY <1>1, <1>5, <2>1, <2>2
<1>7. QED BY <1>6 DEF ApprovalBacked, Backed

-----------------------------------------------------------------------------
(* The inductive invariant *)

RegistryInv == CurrentVersionsAgree /\ EvidenceRegisteredOnce

EvaluationInv == OneActiveEvaluation /\ EvaluationTrail /\ OutcomeFinal

PromotionInv == OneActivePromotion /\ PromotionTrail /\ FourEyes /\ ApprovalBacked

\* The conjuncts carry one another: all need TypeOK, the "one active" ones need
\* WorkflowsBelong (an application and an environment are implied by a version),
\* FourEyes and ApprovalBacked need PromotionTrail (a new request has no events
\* yet), and OutcomeFinal needs EvaluationTrail (the last event tells the status).
StoreInv == TypeOK /\ RegistryInv /\ WorkflowsBelong /\ EvaluationInv /\ PromotionInv

\* The empty store satisfies it.
LEMMA InitStore == Init => StoreInv
<1> SUFFICES ASSUME Init PROVE StoreInv
  OBVIOUS
<1>1. /\ DOMAIN versions = {} /\ DOMAIN version_keys = {} /\ DOMAIN current_versions = {}
      /\ DOMAIN evaluations = {} /\ DOMAIN promotions = {}
  BY DEF Init, EmptyDict
<1>2. TypeOK
  BY InitType
<1>3. CurrentVersionsAgree
  BY <1>1 DEF CurrentVersionsAgree
<1>4. EvidenceRegisteredOnce /\ WorkflowsBelong
  BY <1>1 DEF EvidenceRegisteredOnce, WorkflowsBelong, IsVersionOf
<1>5. OneActiveEvaluation /\ OneActivePromotion /\ FourEyes /\ ApprovalBacked
  BY <1>1 DEF OneActiveEvaluation, OneActivePromotion, FourEyes, ApprovalBacked
<1>6. EvaluationTrail /\ PromotionTrail /\ OutcomeFinal
  BY <1>1 DEF Init, EvaluationTrail, PromotionTrail, OutcomeFinal
<1>7. QED BY <1>2, <1>3, <1>4, <1>5, <1>6
          DEF StoreInv, RegistryInv, EvaluationInv, PromotionInv

\* What depends on the promotions alone is kept while they stand still.
LEMMA PromotionsUntouched ==
    ASSUME PromotionInv, UNCHANGED promotion_vars
    PROVE  PromotionInv'
BY DEF PromotionInv, OneActivePromotion, PromotionTrail, FourEyes, ApprovalBacked, promotion_vars

\* What depends on the evaluations alone is kept while they stand still.
LEMMA EvaluationsUntouched ==
    ASSUME EvaluationInv, UNCHANGED evaluation_vars
    PROVE  EvaluationInv'
BY DEF EvaluationInv, OneActiveEvaluation, EvaluationTrail, OutcomeFinal, evaluation_vars

\* What depends on the registry alone is kept while it stands still.
LEMMA RegistryUntouched ==
    ASSUME RegistryInv, UNCHANGED registry_vars
    PROVE  RegistryInv'
BY DEF RegistryInv, CurrentVersionsAgree, EvidenceRegisteredOnce, registry_vars

\* A registration keeps the invariant of the store.
LEMMA RegistrationKeepsStore ==
    ASSUME StoreInv, TypeOK', NEW vid \in VersionIds, NEW v \in Version,
           RegisterApplication(vid, v)
    PROVE  StoreInv'
<1>1. TypeOK /\ WorkflowsBelong
  BY DEF StoreInv
<1>2. CurrentVersionsAgree'
  <2>1. PointersAndFlags'
    BY <1>1, RegistrationAgrees, AgreementPointwise DEF StoreInv, RegistryInv
  <2>2. (TypeOK => (CurrentVersionsAgree <=> PointersAndFlags))'
    BY AgreementPointwise, PTL
  <2>3. QED BY <2>1, <2>2
<1>3. EvidenceRegisteredOnce'
  BY <1>1, RegistrationIndexes DEF StoreInv, RegistryInv
<1>4. UNCHANGED evaluation_vars /\ UNCHANGED promotion_vars
  BY DEF RegisterApplication
<1>5. EvaluationInv' /\ PromotionInv'
  BY <1>4, EvaluationsUntouched, PromotionsUntouched DEF StoreInv
<1>6. WorkflowsBelong'
  <2>1. evaluations' = evaluations /\ promotions' = promotions
    BY <1>4 DEF evaluation_vars, promotion_vars
  <2>2. \A app, w, env : VersionBelongs(app, w, env) => VersionBelongs(app, w, env)'
    BY <1>1, BelongingLasts
  <2>3. ASSUME NEW e \in DOMAIN evaluations
        PROVE  VersionBelongs(evaluations[e].application_id,
                              evaluations[e].application_version_id,
                              evaluations[e].environment)'
    BY <1>1, <2>1, <2>2 DEF WorkflowsBelong, IsVersionOf, VersionBelongs
  <2>4. ASSUME NEW p \in DOMAIN promotions
        PROVE  VersionBelongs(promotions[p].application_id,
                              promotions[p].application_version_id,
                              promotions[p].source_environment)'
    BY <1>1, <2>1, <2>2 DEF WorkflowsBelong, IsVersionOf, VersionBelongs
  <2>5. QED BY <2>1, <2>3, <2>4 DEF WorkflowsBelong, IsVersionOf, VersionBelongs
<1>7. QED BY <1>2, <1>3, <1>5, <1>6 DEF StoreInv, RegistryInv

\* An evaluation created or moved keeps the invariant of the store.
LEMMA EvaluationKeepsStore ==
    ASSUME StoreInv, TypeOK', NEW eid \in EvaluationIds, NEW new \in Evaluation,
           EvaluationCreated(eid, new) \/ EvaluationMoved(eid, new)
    PROVE  StoreInv'
<1>1. TypeOK /\ WorkflowsBelong /\ OneActiveEvaluation /\ EvaluationTrail /\ OutcomeFinal
  BY DEF StoreInv, EvaluationInv
<1>2. OneActiveEvaluation'
  BY <1>1, EvaluationCreatedAlone, EvaluationMovedAlone
<1>3. EvaluationTrail' /\ OutcomeFinal'
  BY <1>1, EvaluationTrailKept, OutcomeFinalKept
<1>4. UNCHANGED registry_vars /\ UNCHANGED promotion_vars
  BY DEF EvaluationCreated, EvaluationMoved, RecordEvaluation
<1>5. RegistryInv' /\ PromotionInv'
  BY <1>4, RegistryUntouched, PromotionsUntouched DEF StoreInv
<1>6. WorkflowsBelong'
  <2>1. /\ DOMAIN evaluations' = DOMAIN evaluations \cup {eid}
        /\ evaluations'[eid] = new
        /\ \A e \in DOMAIN evaluations : e # eid => evaluations'[e] = evaluations[e]
    BY DEF EvaluationCreated, EvaluationMoved, RecordEvaluation, Put
  <2>2. VersionBelongs(new.application_id, new.application_version_id, new.environment)
    BY <1>1 DEF EvaluationCreated, EvaluationMoved, WorkflowsBelong, IsVersionOf, VersionBelongs
  <2>3. QED BY <1>1, <1>4, <2>1, <2>2
            DEF WorkflowsBelong, IsVersionOf, VersionBelongs, registry_vars, promotion_vars
<1>7. QED BY <1>2, <1>3, <1>5, <1>6 DEF StoreInv, EvaluationInv

\* A promotion created or moved keeps the invariant of the store.
LEMMA PromotionKeepsStore ==
    ASSUME StoreInv, TypeOK', NEW pid \in PromotionIds, NEW new \in Promotion,
           NEW actor \in Principals,
           PromotionCreated(pid, new, actor) \/ PromotionMoved(pid, new, actor)
    PROVE  StoreInv'
<1>1. /\ TypeOK /\ WorkflowsBelong /\ OneActivePromotion
      /\ PromotionTrail /\ FourEyes /\ ApprovalBacked
  BY DEF StoreInv, PromotionInv
<1>2. OneActivePromotion'
  BY <1>1, PromotionCreatedAlone, PromotionMovedAlone
<1>3. PromotionTrail' /\ FourEyes' /\ ApprovalBacked'
  BY <1>1, PromotionTrailKept, FourEyesKept, ApprovalBackedKept
<1>4. UNCHANGED registry_vars /\ UNCHANGED evaluation_vars
  BY DEF PromotionCreated, PromotionMoved, RecordPromotion
<1>5. RegistryInv' /\ EvaluationInv'
  BY <1>4, RegistryUntouched, EvaluationsUntouched DEF StoreInv
<1>6. WorkflowsBelong'
  <2>1. /\ DOMAIN promotions' = DOMAIN promotions \cup {pid}
        /\ promotions'[pid] = new
        /\ \A p \in DOMAIN promotions : p # pid => promotions'[p] = promotions[p]
    BY DEF PromotionCreated, PromotionMoved, RecordPromotion, Put
  <2>2. VersionBelongs(new.application_id, new.application_version_id, new.source_environment)
    BY <1>1 DEF PromotionCreated, PromotionMoved, WorkflowsBelong, IsVersionOf, VersionBelongs, SameRequest
  <2>3. QED BY <1>1, <1>4, <2>1, <2>2
            DEF WorkflowsBelong, IsVersionOf, VersionBelongs, registry_vars, evaluation_vars
<1>7. QED BY <1>2, <1>3, <1>5, <1>6 DEF StoreInv, PromotionInv

\* Every operation preserves the invariant.
LEMMA NextStore == StoreInv /\ [Next]_store_vars => StoreInv'
<1> SUFFICES ASSUME StoreInv, [Next]_store_vars PROVE StoreInv'
  OBVIOUS
<1>1. TypeOK /\ TypeOK'
  BY NextType DEF StoreInv
<1>2. CASE Next
  <2>1. CASE \E vid \in VersionIds, v \in Version : RegisterApplication(vid, v)
    BY <1>1, <2>1, RegistrationKeepsStore
  <2>2. CASE \E eid \in EvaluationIds, new \in Evaluation :
                 EvaluationCreated(eid, new) \/ EvaluationMoved(eid, new)
    BY <1>1, <2>2, EvaluationKeepsStore
  <2>3. CASE \E pid \in PromotionIds, new \in Promotion, actor \in Principals :
                 PromotionCreated(pid, new, actor) \/ PromotionMoved(pid, new, actor)
    BY <1>1, <2>3, PromotionKeepsStore
  <2>4. QED BY <1>1, <1>2, <2>1, <2>2, <2>3, KindsOfStep
<1>3. CASE UNCHANGED store_vars
  <2>1. UNCHANGED registry_vars /\ UNCHANGED evaluation_vars /\ UNCHANGED promotion_vars
    BY <1>3 DEF store_vars
  <2>2. RegistryInv' /\ EvaluationInv' /\ PromotionInv'
    BY <2>1, RegistryUntouched, EvaluationsUntouched, PromotionsUntouched DEF StoreInv
  <2>3. WorkflowsBelong'
    BY <2>1 DEF StoreInv, WorkflowsBelong, IsVersionOf, VersionBelongs, registry_vars,
       evaluation_vars, promotion_vars
  <2>4. QED BY <1>1, <2>2, <2>3 DEF StoreInv
<1>4. QED BY <1>2, <1>3

\* The store keeps its invariant whatever its callers do.
THEOREM StoreInvariant == Spec => []StoreInv
BY InitStore, NextStore, PTL DEF Spec

\* The pointer of every environment and the flags of its versions agree.
THEOREM CurrentVersionsAlwaysAgree == Spec => []CurrentVersionsAgree
<1>1. StoreInv => CurrentVersionsAgree
  BY DEF StoreInv, RegistryInv
<1>2. QED BY <1>1, StoreInvariant, PTL

\* Registration is idempotent: evidence is stored once and found by its key.
THEOREM EvidenceAlwaysRegisteredOnce == Spec => []EvidenceRegisteredOnce
<1>1. StoreInv => EvidenceRegisteredOnce
  BY DEF StoreInv, RegistryInv
<1>2. QED BY <1>1, StoreInvariant, PTL

\* Evaluations and promotions go on being about stored evidence of their own.
THEOREM WorkflowsAlwaysBelong == Spec => []WorkflowsBelong
<1>1. StoreInv => WorkflowsBelong
  BY DEF StoreInv
<1>2. QED BY <1>1, StoreInvariant, PTL

\* Never two evaluations of a version in flight.
THEOREM AtMostOneActiveEvaluation == Spec => []OneActiveEvaluation
<1>1. StoreInv => OneActiveEvaluation
  BY DEF StoreInv, EvaluationInv
<1>2. QED BY <1>1, StoreInvariant, PTL

\* Never two requests open for one version and target environment.
THEOREM AtMostOneActivePromotion == Spec => []OneActivePromotion
<1>1. StoreInv => OneActivePromotion
  BY DEF StoreInv, PromotionInv
<1>2. QED BY <1>1, StoreInvariant, PTL

\* The trail of an evaluation tells each status and row version, step by step.
THEOREM EvaluationTrailsComplete == Spec => []EvaluationTrail
<1>1. StoreInv => EvaluationTrail
  BY DEF StoreInv, EvaluationInv
<1>2. QED BY <1>1, StoreInvariant, PTL

\* It tells one outcome, and success only of what was running.
THEOREM OutcomesFinal == Spec => []OutcomeFinal
<1>1. StoreInv => OutcomeFinal
  BY DEF StoreInv, EvaluationInv
<1>2. QED BY <1>1, StoreInvariant, PTL

\* The trail of a promotion tells each status and row version likewise.
THEOREM PromotionTrailsComplete == Spec => []PromotionTrail
<1>1. StoreInv => PromotionTrail
  BY DEF StoreInv, PromotionInv
<1>2. QED BY <1>1, StoreInvariant, PTL

\* No promotion is approved by its requester or reviewed by a non-administrator.
THEOREM ApprovalsFourEyes == Spec => []FourEyes
<1>1. StoreInv => FourEyes
  BY DEF StoreInv, PromotionInv
<1>2. QED BY <1>1, StoreInvariant, PTL

\* Approval evidence and the event of an approval come together, and the evidence is
\* ready and about the version of the request.
THEOREM ApprovalsBacked == Spec => []ApprovalBacked
<1>1. StoreInv => ApprovalBacked
  BY DEF StoreInv, PromotionInv
<1>2. QED BY <1>1, StoreInvariant, PTL

-----------------------------------------------------------------------------
(* What a step may never do *)

\* Stored evidence is immutable and a superseded version stays superseded.
THEOREM EvidenceImmutable == Spec => SupersededForGood
<1> DEFINE Kept == \A v \in DOMAIN versions :
                       /\ v \in DOMAIN versions'
                       /\ versions'[v] \in {versions[v],
                                            [versions[v] EXCEPT !.is_current = FALSE]}
<1>1. StoreInv /\ [Next]_store_vars => [Kept]_store_vars
  <2> SUFFICES ASSUME StoreInv, Next PROVE Kept
    OBVIOUS
  <2>1. TypeOK
    BY DEF StoreInv
  <2>2. CASE \E vid \in VersionIds, v \in Version : RegisterApplication(vid, v)
    BY <2>1, <2>2, RegistrationGrows DEF VersionsGrow
  <2>3. CASE versions' = versions
    BY <2>3
  <2>4. QED BY <2>1, <2>2, <2>3, KindsOfStep DEF EvaluationCreated, EvaluationMoved,
        PromotionCreated, PromotionMoved, RecordEvaluation, RecordPromotion, registry_vars
<1>2. QED BY <1>1, StoreInvariant, PTL DEF Spec, SupersededForGood

\* Once approved, a promotion keeps the evidence of its approval.
THEOREM ApprovalsImmutable == Spec => ApprovalImmutable
<1> DEFINE Kept == \A p \in DOMAIN promotions :
                       promotions[p].approval_readiness_snapshot # None =>
                           /\ p \in DOMAIN promotions'
                           /\ promotions'[p].approval_readiness_snapshot
                                  = promotions[p].approval_readiness_snapshot
<1>1. StoreInv /\ [Next]_store_vars => [Kept]_store_vars
  <2> SUFFICES ASSUME StoreInv, Next PROVE Kept
    OBVIOUS
  <2>1. TypeOK /\ ApprovalBacked
    BY DEF StoreInv, PromotionInv
  <2>2. CASE \E pid \in PromotionIds, new \in Promotion, actor \in Principals :
                 PromotionCreated(pid, new, actor)
    BY <2>2 DEF PromotionCreated, RecordPromotion, Put
  <2>3. CASE \E pid \in PromotionIds, new \in Promotion, actor \in Principals :
                 PromotionMoved(pid, new, actor)
    <3>1. PICK pid \in PromotionIds, new \in Promotion, actor \in Principals :
              PromotionMoved(pid, new, actor)
      BY <2>3
    <3>2. promotions[pid].approval_readiness_snapshot # None =>
              new.approval_readiness_snapshot = promotions[pid].approval_readiness_snapshot
      <4>1. new.status = "APPROVED" => promotions[pid].status = "PENDING_REVIEW"
        BY <3>1 DEF PromotionMoved, PromotionTransitions
      <4>2. promotions[pid].approval_readiness_snapshot \in Snapshot \cup {None}
        BY <2>1, <3>1 DEF TypeOK, PromotionMoved, Promotion
      <4>3. promotions[pid].approval_readiness_snapshot \in Snapshot
                => promotions[pid].status # "PENDING_REVIEW"
        BY <2>1, <3>1 DEF ApprovalBacked, PromotionMoved
      <4>4. QED BY <3>1, <4>1, <4>2, <4>3 DEF PromotionMoved
    <3>3. QED BY <3>1, <3>2 DEF PromotionMoved, RecordPromotion, Put
  <2>4. CASE promotions' = promotions
    BY <2>4
  <2>5. QED BY <2>1, <2>2, <2>3, <2>4, KindsOfStep DEF RegisterApplication, promotion_vars,
        EvaluationCreated, EvaluationMoved, RecordEvaluation
<1>2. QED BY <1>1, StoreInvariant, PTL DEF Spec, ApprovalImmutable

-----------------------------------------------------------------------------
(* The history of an application *)

OwnVersions(app) == {v \in DOMAIN versions : versions[v].application_id = app}

\* The trail names the versions of the application, each once and under its environment.
Listed(app) ==
    LET trail == application_events[app]
    IN  /\ OwnVersions(app) = {trail[i].new_state : i \in DOMAIN trail}
        /\ IsFiniteSet(OwnVersions(app))
        /\ Len(trail) = Cardinality(OwnVersions(app))
        /\ \A i \in DOMAIN trail : trail[i].environment = versions[trail[i].new_state].environment

\* The application record counts its versions, which share a repository.
Accounted(app) ==
    /\ (app \in DOMAIN applications) = (OwnVersions(app) # {})
    /\ app \in DOMAIN applications =>
           applications[app].row_version = Len(application_events[app])
    /\ \A v, w \in OwnVersions(app) : versions[v].git_repository = versions[w].git_repository
    /\ \A v \in OwnVersions(app) : versions[v].registered_at <= applications[app].updated_at

\* trail[j] is the last event of its environment before position i.
LastBefore(trail, i, j) ==
    \A k \in 1 .. i - 1 : trail[k].environment = trail[j].environment => k <= j

\* Each event of a trail names the version it superseded, and the last of an
\* environment the version its pointer names.
Succession(app) ==
    LET trail == application_events[app]
    IN  \A i \in DOMAIN trail :
            /\ (\A j \in 1 .. i - 1 : trail[j].environment # trail[i].environment)
                   => trail[i].previous_state = None
            /\ \A j \in 1 .. i - 1 :
                   trail[j].environment = trail[i].environment /\ LastBefore(trail, i, j)
                       => trail[i].previous_state = trail[j].new_state
            /\ LastBefore(trail, Len(trail) + 1, i)
                   => /\ <<app, trail[i].environment>> \in DOMAIN current_versions
                      /\ current_versions[<<app, trail[i].environment>>] = trail[i].new_state

History == \A app \in AppIds : Listed(app) /\ Accounted(app) /\ Succession(app)

\* The history, said with the named parts of the proof.
LEMMA HistoryTold == TypeOK /\ History => RegistrationHistory
<1> SUFFICES ASSUME TypeOK, History, NEW app \in AppIds
             PROVE  LET trail == application_events[app]
                        own == {v \in DOMAIN versions : versions[v].application_id = app}
                    IN  /\ own = {trail[i].new_state : i \in DOMAIN trail}
                        /\ Len(trail) = Cardinality(own)
                        /\ (app \in DOMAIN applications) = (own # {})
                        /\ own # {} => applications[app].row_version = Len(trail)
                        /\ \A v, w \in own : versions[v].git_repository = versions[w].git_repository
                        /\ \A v \in own : versions[v].registered_at <= applications[app].updated_at
                        /\ \A i \in DOMAIN trail :
                              /\ EarlierRegistrations(app, i) = {}
                                     => trail[i].previous_state = None
                              /\ \A j \in EarlierRegistrations(app, i) :
                                     (\A k \in EarlierRegistrations(app, i) : k <= j)
                                         => trail[i].previous_state = trail[j].new_state
                              /\ (\A j \in DOMAIN trail : i \notin EarlierRegistrations(app, j))
                                     => current_versions[<<app, trail[i].environment>>]
                                            = trail[i].new_state
  BY DEF RegistrationHistory
<1> DEFINE trail == application_events[app]
<1>1. trail \in Seq(RegistrationEvent) /\ Len(trail) \in Nat /\ DOMAIN trail = 1 .. Len(trail)
  BY DEF TypeOK
<1>2. Listed(app) /\ Accounted(app) /\ Succession(app)
  BY DEF History
<1>3. ASSUME NEW i \in DOMAIN trail
      PROVE  /\ EarlierRegistrations(app, i) = {} => trail[i].previous_state = None
             /\ \A j \in EarlierRegistrations(app, i) :
                    (\A k \in EarlierRegistrations(app, i) : k <= j)
                        => trail[i].previous_state = trail[j].new_state
             /\ (\A j \in DOMAIN trail : i \notin EarlierRegistrations(app, j))
                    => current_versions[<<app, trail[i].environment>>] = trail[i].new_state
  <2>1. EarlierRegistrations(app, i)
            = {j \in 1 .. i - 1 : trail[j].environment = trail[i].environment}
    BY DEF EarlierRegistrations
  <2>2. EarlierRegistrations(app, i) = {} => trail[i].previous_state = None
    BY <1>2, <2>1 DEF Succession
  <2>3. ASSUME NEW j \in EarlierRegistrations(app, i),
               \A k \in EarlierRegistrations(app, i) : k <= j
        PROVE  trail[i].previous_state = trail[j].new_state
    <3>1. LastBefore(trail, i, j)
      BY <2>1, <2>3 DEF LastBefore
    <3> QED
      BY <1>2, <2>1, <3>1 DEF Succession
  <2>4. ASSUME \A j \in DOMAIN trail : i \notin EarlierRegistrations(app, j)
        PROVE  current_versions[<<app, trail[i].environment>>] = trail[i].new_state
    <3>1. ASSUME NEW k \in 1 .. Len(trail) + 1 - 1, trail[k].environment = trail[i].environment,
                 ~ k <= i
          PROVE  FALSE
      <4>1. i \in 1 .. k - 1 /\ k \in DOMAIN trail
        BY <1>1, <3>1
      <4> QED
        BY <2>4, <3>1, <4>1 DEF EarlierRegistrations
    <3>2. LastBefore(trail, Len(trail) + 1, i)
      BY <3>1 DEF LastBefore
    <3> QED
      BY <1>2, <3>2 DEF Succession
  <2> QED
    BY <2>2, <2>3, <2>4
<1> QED
  BY <1>2, <1>3 DEF Listed, Accounted, OwnVersions

\* An application without versions has no history yet.
LEMMA InitHistory == Init => History
<1> SUFFICES ASSUME Init, NEW app \in AppIds PROVE Listed(app) /\ Accounted(app) /\ Succession(app)
  BY DEF History
<1>1. /\ application_events[app] = << >> /\ DOMAIN << >> = {} /\ Len(<< >>) = 0
      /\ DOMAIN versions = {} /\ DOMAIN applications = {}
  BY DEF Init, EmptyDict
<1>2. OwnVersions(app) = {}
  BY <1>1 DEF OwnVersions
<1> QED
  BY <1>1, <1>2, FS_EmptySet DEF Listed, Accounted, Succession

\* What no registration changes of a version that is stored.
LEMMA VersionsStand ==
    ASSUME TypeOK, NEW vid \in VersionIds, NEW v \in Version, RegisterApplication(vid, v)
    PROVE  /\ DOMAIN versions' = DOMAIN versions \cup {vid}
           /\ vid \notin DOMAIN versions
           /\ \A w \in DOMAIN versions :
                  /\ versions'[w].application_id = versions[w].application_id
                  /\ versions'[w].environment = versions[w].environment
                  /\ versions'[w].git_repository = versions[w].git_repository
                  /\ versions'[w].registered_at = versions[w].registered_at
           /\ versions'[vid].application_id = v.application_id
           /\ versions'[vid].environment = v.environment
           /\ versions'[vid].git_repository = v.git_repository
           /\ versions'[vid].registered_at = v.registered_at
<1>1. \A w \in Version, flag \in BOOLEAN :
          LET u == [w EXCEPT !.is_current = flag]
          IN  /\ u.application_id = w.application_id
              /\ u.environment = w.environment
              /\ u.git_repository = w.git_repository
              /\ u.registered_at = w.registered_at
  BY DEF Version
<1>2. \A w \in DOMAIN versions : versions[w] \in Version
  BY DEF TypeOK
<1>3. /\ DOMAIN versions' = DOMAIN versions \cup {vid}
      /\ vid \notin DOMAIN versions
      /\ versions'[vid] = [v EXCEPT !.is_current = TRUE]
      /\ \A w \in DOMAIN versions :
             \/ versions'[w] = versions[w]
             \/ versions'[w] = [versions[w] EXCEPT !.is_current = FALSE]
  BY RegistrationGrows
<1> QED
  BY <1>1, <1>2, <1>3

\* A registration leaves the history of the other applications alone,
LEMMA OthersHistoryKept ==
    ASSUME TypeOK, History, NEW vid \in VersionIds, NEW v \in Version,
           RegisterApplication(vid, v), NEW app \in AppIds, app # v.application_id
    PROVE  (Listed(app) /\ Accounted(app) /\ Succession(app))'
<1> DEFINE trail == application_events[app]
<1>1. application_events'[app] = trail /\ OwnVersions(app)' = OwnVersions(app)
  BY ZenonT(40), VersionsStand DEF RegisterApplication, OwnVersions, TypeOK
<1>2. /\ app \in DOMAIN applications' <=> app \in DOMAIN applications
      /\ app \in DOMAIN applications => applications'[app] = applications[app]
  BY DEF RegisterApplication, Put
<1>3. \A env : /\ <<app, env>> \in DOMAIN current_versions => <<app, env>> \in DOMAIN current_versions'
               /\ <<app, env>> \in DOMAIN current_versions =>
                      current_versions'[<<app, env>>] = current_versions[<<app, env>>]
  BY DEF RegisterApplication, Put, Pointer
<1>4. Listed(app) /\ Accounted(app) /\ Succession(app)
  BY DEF History
<1>5. Listed(app)'
  <2>1. \A i \in DOMAIN trail : trail[i].new_state \in DOMAIN versions
    BY <1>4 DEF Listed, OwnVersions
  <2>2. \A w \in DOMAIN versions : versions'[w].environment = versions[w].environment
    BY VersionsStand
  <2>3. \A i \in DOMAIN trail : trail[i].environment = versions'[trail[i].new_state].environment
    BY <1>4, <2>1, <2>2 DEF Listed
  <2> QED
    BY <1>1, <1>4, <2>3 DEF Listed
<1>6. Accounted(app)'
  <2>1. \A w \in OwnVersions(app) : w \in DOMAIN versions
    BY DEF OwnVersions
  <2>2. OwnVersions(app) # {} => app \in DOMAIN applications
    BY <1>4 DEF Accounted
  <2>3. \A w \in DOMAIN versions :
            /\ versions'[w].git_repository = versions[w].git_repository
            /\ versions'[w].registered_at = versions[w].registered_at
    BY VersionsStand
  <2>4. \A u, w \in OwnVersions(app)' : versions'[u].git_repository = versions'[w].git_repository
    BY <1>1, <1>4, <2>1, <2>3 DEF Accounted
  <2>5. \A w \in OwnVersions(app)' : versions'[w].registered_at <= applications'[app].updated_at
    BY <1>1, <1>2, <1>4, <2>1, <2>2, <2>3 DEF Accounted
  <2> QED
    BY <1>1, <1>2, <1>4, <2>4, <2>5 DEF Accounted
<1>7. Succession(app)'
  BY <1>1, <1>3, <1>4 DEF Succession, LastBefore
<1> QED
  BY <1>5, <1>6, <1>7

\* its trail lists the new version,
LEMMA RegistrationListed ==
    ASSUME TypeOK, History, NEW vid \in VersionIds, NEW v \in Version,
           RegisterApplication(vid, v)
    PROVE  /\ OwnVersions(v.application_id)' = OwnVersions(v.application_id) \cup {vid}
           /\ Listed(v.application_id)'
<1> DEFINE app == v.application_id
           trail == application_events[app]
           event == [environment |-> v.environment, previous_state |-> PreviousCurrent(v),
                     new_state |-> vid]
<1>1. app \in AppIds /\ v.environment \in Environments
  BY DEF Version
<1>2. trail \in Seq(RegistrationEvent) /\ Len(trail) \in Nat /\ DOMAIN trail = 1 .. Len(trail)
  BY <1>1 DEF TypeOK
<1>3. application_events'[app] = Append(trail, event)
  BY <1>1 DEF RegisterApplication, TypeOK
<1>4. PreviousCurrent(v) \in VersionIds \cup {None}
  BY DEF PreviousCurrent, TypeOK
<1>5. event \in RegistrationEvent
  BY <1>1, <1>4 DEF RegistrationEvent
<1>6. /\ DOMAIN Append(trail, event) = 1 .. Len(trail) + 1
      /\ Len(Append(trail, event)) = Len(trail) + 1
      /\ Append(trail, event)[Len(trail) + 1] = event
      /\ \A i \in DOMAIN trail : Append(trail, event)[i] = trail[i]
  BY <1>2, <1>5
<1>7. Listed(app)
  BY <1>1 DEF History
<1>8. OwnVersions(app)' = OwnVersions(app) \cup {vid} /\ vid \notin OwnVersions(app)
  BY VersionsStand DEF OwnVersions
<1>9. IsFiniteSet(OwnVersions(app)')
      /\ Cardinality(OwnVersions(app)') = Cardinality(OwnVersions(app)) + 1
  BY <1>7, <1>8, FS_AddElement DEF Listed
<1>10. OwnVersions(app)'
           = {application_events'[app][i].new_state : i \in DOMAIN application_events'[app]}
  <2>1. OwnVersions(app) = {trail[i].new_state : i \in DOMAIN trail}
    BY <1>7 DEF Listed
  <2> HIDE DEF event
  <2>2. event.new_state = vid
    BY DEF event
  <2> QED
    BY <1>2, <1>3, <1>6, <1>8, <2>1, <2>2
<1>11. \A i \in DOMAIN application_events'[app] :
           application_events'[app][i].environment
               = versions'[application_events'[app][i].new_state].environment
  <2>1. \A i \in DOMAIN trail :
            /\ trail[i].new_state \in DOMAIN versions
            /\ trail[i].environment = versions[trail[i].new_state].environment
    BY <1>7 DEF Listed, OwnVersions
  <2>2. event.environment = versions'[event.new_state].environment
    BY VersionsStand
  <2>3. \A w \in DOMAIN versions : versions'[w].environment = versions[w].environment
    BY VersionsStand
  <2> HIDE DEF event
  <2>4. \A i \in DOMAIN trail : trail[i].environment = versions'[trail[i].new_state].environment
    BY <2>1, <2>3
  <2>5. \A i \in DOMAIN Append(trail, event) : i \in DOMAIN trail \/ i = Len(trail) + 1
    BY <1>2, <1>6
  <2> QED
    BY <1>3, <1>6, <2>2, <2>4, <2>5
<1>12. Len(application_events'[app]) = Cardinality(OwnVersions(app)')
  BY <1>3, <1>6, <1>7, <1>9 DEF Listed
<1> QED
  BY <1>8, <1>9, <1>10, <1>11, <1>12 DEF Listed

\* its record counts it and is not older than it,
LEMMA RegistrationAccounted ==
    ASSUME TypeOK, History, NEW vid \in VersionIds, NEW v \in Version,
           RegisterApplication(vid, v)
    PROVE  Accounted(v.application_id)'
<1> DEFINE app == v.application_id
           own == OwnVersions(app)
           record == RegisteredApplication(v)
<1>1. app \in AppIds /\ v.registered_at \in Times
  BY DEF Version
<1>2. Listed(app) /\ Accounted(app)
  BY <1>1 DEF History
<1>3. OwnVersions(app)' = own \cup {vid}
  BY RegistrationListed
<1>4. app \in DOMAIN applications' /\ applications'[app] = record
  BY DEF RegisterApplication, Put
<1>5. app \in DOMAIN applications =>
          /\ applications[app].updated_at \in Nat
          /\ applications[app].row_version \in Nat
  BY TimesAssumption DEF TypeOK, Application, RowVersion
<1>6. Len(application_events'[app]) = Len(application_events[app]) + 1
  BY <1>1 DEF RegisterApplication, TypeOK
<1>7. record.row_version = Len(application_events[app]) + 1
  <2>1. CASE app \in DOMAIN applications
    BY <1>2, <2>1 DEF Accounted, RegisteredApplication
  <2>2. CASE app \notin DOMAIN applications
    <3>1. Len(application_events[app]) = 0
      BY <1>2, <2>2, FS_EmptySet DEF Accounted, Listed
    <3> QED
      BY <2>2, <3>1 DEF RegisteredApplication
  <2> QED
    BY <2>1, <2>2
<1>8. /\ v.registered_at <= record.updated_at
      /\ app \in DOMAIN applications => applications[app].updated_at <= record.updated_at
      /\ record.updated_at \in Nat
  <2>1. v.registered_at \in Nat
    BY <1>1, TimesAssumption
  <2>2. CASE app \in DOMAIN applications
    <3>1. record.updated_at = Later(applications[app].updated_at, v.registered_at)
      BY <2>2 DEF RegisteredApplication
    <3> HIDE DEF record
    <3> QED
      BY <1>5, <2>1, <2>2, <3>1 DEF Later
  <2>3. CASE app \notin DOMAIN applications
    <3>1. record.updated_at = v.registered_at
      BY <2>3 DEF RegisteredApplication
    <3> QED
      BY <2>1, <2>3, <3>1
  <2> QED
    BY <2>2, <2>3
<1>9. \A w \in own : /\ w \in DOMAIN versions
                     /\ app \in DOMAIN applications
                     /\ versions[w].registered_at \in Nat
                     /\ versions[w].registered_at <= applications[app].updated_at
  BY <1>2, TimesAssumption DEF Accounted, OwnVersions, TypeOK, Version
<1>10. \A w \in own : versions'[w].registered_at <= record.updated_at
  <2>1. \A w \in DOMAIN versions : versions'[w].registered_at = versions[w].registered_at
    BY VersionsStand
  <2> HIDE DEF record
  <2> QED
    BY <1>5, <1>8, <1>9, <2>1
<1>11. \A w \in own : versions[w].git_repository = v.git_repository
  BY <1>2 DEF RegisterApplication, GitRepositoryAllowed, Accounted, OwnVersions
<1>12. \A w \in OwnVersions(app)' : versions'[w].git_repository = v.git_repository
  BY ZenonT(40), <1>3, <1>9, <1>11, VersionsStand
<1>13. \A w \in OwnVersions(app)' : versions'[w].registered_at <= applications'[app].updated_at
  BY ZenonT(40), <1>3, <1>4, <1>8, <1>10, VersionsStand
<1> QED
  BY <1>3, <1>4, <1>6, <1>7, <1>12, <1>13 DEF Accounted

\* and its event follows the one it supersedes.
LEMMA RegistrationSucceeds ==
    ASSUME TypeOK, CurrentVersionsAgree, History, NEW vid \in VersionIds, NEW v \in Version,
           RegisterApplication(vid, v)
    PROVE  Succession(v.application_id)'
<1> DEFINE app == v.application_id
           trail == application_events[app]
           event == [environment |-> v.environment, previous_state |-> PreviousCurrent(v),
                     new_state |-> vid]
           last == Len(trail) + 1
<1>1. app \in AppIds /\ v.environment \in Environments /\ Pointer(v) = <<app, v.environment>>
  BY DEF Version, Pointer
<1>2. trail \in Seq(RegistrationEvent) /\ Len(trail) \in Nat /\ DOMAIN trail = 1 .. Len(trail)
  BY <1>1 DEF TypeOK
<1>3. application_events'[app] = Append(trail, event)
  BY <1>1 DEF RegisterApplication, TypeOK
<1>4. event \in RegistrationEvent
  BY <1>1 DEF RegistrationEvent, PreviousCurrent, TypeOK
<1>5. /\ DOMAIN application_events'[app] = 1 .. last
      /\ Len(application_events'[app]) = last
      /\ application_events'[app][last] = event
      /\ \A i \in 1 .. Len(trail) : application_events'[app][i] = trail[i]
  BY <1>2, <1>3, <1>4
<1>6. Listed(app) /\ Succession(app)
  BY <1>1 DEF History
<1>7. PointersAndFlags
  BY AgreementPointwise
<1>8. (\A j \in 1 .. Len(trail) : trail[j].environment # v.environment)
          => Pointer(v) \notin DOMAIN current_versions
  <2> SUFFICES ASSUME Pointer(v) \in DOMAIN current_versions
               PROVE  \E j \in 1 .. Len(trail) : trail[j].environment = v.environment
    OBVIOUS
  <2> DEFINE w == current_versions[Pointer(v)]
  <2>1. w \in DOMAIN versions /\ Pointer(versions[w]) = Pointer(v)
    BY <1>7 DEF PointersAndFlags
  <2>2. versions[w].application_id = app /\ versions[w].environment = v.environment
    BY <2>1 DEF Pointer
  <2>3. PICK j \in DOMAIN trail : w = trail[j].new_state
    BY <1>6, <2>1, <2>2 DEF Listed, OwnVersions
  <2> QED
    BY <1>2, <1>6, <2>2, <2>3 DEF Listed
<1>9. current_versions' = Put(current_versions, Pointer(v), vid)
  BY DEF RegisterApplication
<1>10. /\ Pointer(v) \in DOMAIN current_versions'
       /\ current_versions'[Pointer(v)] = vid
       /\ \A k \in DOMAIN current_versions : k # Pointer(v) =>
              k \in DOMAIN current_versions' /\ current_versions'[k] = current_versions[k]
  BY <1>9 DEF Put
<1> DEFINE new == application_events'[app]
<1> HIDE DEF event
<1>11. event.environment = v.environment /\ event.new_state = vid
       /\ event.previous_state = PreviousCurrent(v)
  BY DEF event
<1>12. \A i, j \in 1 .. Len(trail) : LastBefore(new, i, j) <=> LastBefore(trail, i, j)
  <2> SUFFICES ASSUME NEW i \in 1 .. Len(trail), NEW j \in 1 .. Len(trail)
               PROVE  LastBefore(new, i, j) <=> LastBefore(trail, i, j)
    OBVIOUS
  <2>1. \A k \in 1 .. i - 1 : new[k] = trail[k]
    BY <1>2, <1>5
  <2>2. new[j] = trail[j]
    BY <1>5
  <2> QED
    BY <2>1, <2>2 DEF LastBefore
<1>13. \A j \in 1 .. Len(trail) : LastBefore(new, last, j) <=> LastBefore(trail, last, j)
  <2> SUFFICES ASSUME NEW j \in 1 .. Len(trail)
               PROVE  LastBefore(new, last, j) <=> LastBefore(trail, last, j)
    OBVIOUS
  <2>1. \A k \in 1 .. last - 1 : new[k] = trail[k]
    BY <1>2, <1>5
  <2>2. new[j] = trail[j]
    BY <1>5
  <2> QED
    BY <2>1, <2>2 DEF LastBefore
<1>14. ASSUME NEW i \in 1 .. Len(trail)
       PROVE  /\ (\A j \in 1 .. i - 1 : new[j].environment # new[i].environment)
                     => new[i].previous_state = None
              /\ \A j \in 1 .. i - 1 :
                     new[j].environment = new[i].environment /\ LastBefore(new, i, j)
                         => new[i].previous_state = new[j].new_state
              /\ LastBefore(new, last + 1, i)
                     => /\ <<app, new[i].environment>> \in DOMAIN current_versions'
                        /\ current_versions'[<<app, new[i].environment>>] = new[i].new_state
  <2>1. new[i] = trail[i] /\ \A j \in 1 .. i - 1 : j \in 1 .. Len(trail) /\ new[j] = trail[j]
    <3>1. \A j \in 1 .. i - 1 : j \in 1 .. Len(trail)
      BY <1>2
    <3>2. \A j \in 1 .. Len(trail) : new[j] = trail[j]
      BY <1>5
    <3> HIDE DEF new, trail
    <3> QED
      BY <3>1, <3>2
  <2>2. (\A j \in 1 .. i - 1 : new[j].environment # new[i].environment)
            => new[i].previous_state = None
    BY <1>2, <1>6, <2>1 DEF Succession
  <2>3. \A j \in 1 .. i - 1 :
            new[j].environment = new[i].environment /\ LastBefore(new, i, j)
                => new[i].previous_state = new[j].new_state
    <3>1. \A j \in 1 .. i - 1 :
              trail[j].environment = trail[i].environment /\ LastBefore(trail, i, j)
                  => trail[i].previous_state = trail[j].new_state
      BY <1>2, <1>6 DEF Succession
    <3> HIDE DEF new, trail
    <3> QED
      BY <1>12, <2>1, <3>1
  <2>4. ASSUME LastBefore(new, last + 1, i)
        PROVE  /\ <<app, new[i].environment>> \in DOMAIN current_versions'
               /\ current_versions'[<<app, new[i].environment>>] = new[i].new_state
    <3>1. trail[i].environment # v.environment
      <4>1. last \in 1 .. last + 1 - 1 /\ ~ last <= i
        BY <1>2
      <4> QED
        BY <1>5, <1>11, <2>1, <2>4, <4>1 DEF LastBefore
    <3>2. LastBefore(trail, last, i)
      BY <1>2, <1>5, <2>1, <2>4 DEF LastBefore
    <3>3. /\ <<app, trail[i].environment>> \in DOMAIN current_versions
          /\ current_versions[<<app, trail[i].environment>>] = trail[i].new_state
      BY <1>2, <1>6, <3>2 DEF Succession
    <3> QED
      BY <1>1, <1>10, <2>1, <3>1, <3>3
  <2> QED
    BY <2>2, <2>3, <2>4
<1>15. /\ (\A j \in 1 .. last - 1 : new[j].environment # new[last].environment)
              => new[last].previous_state = None
       /\ \A j \in 1 .. last - 1 :
              new[j].environment = new[last].environment /\ LastBefore(new, last, j)
                  => new[last].previous_state = new[j].new_state
       /\ <<app, new[last].environment>> \in DOMAIN current_versions'
       /\ current_versions'[<<app, new[last].environment>>] = new[last].new_state
  <2>1. \A j \in 1 .. last - 1 : j \in 1 .. Len(trail) /\ new[j] = trail[j]
    BY <1>2, <1>5
  <2>2. last - 1 = Len(trail)
    BY <1>2
  <2>3. (\A j \in 1 .. last - 1 : new[j].environment # new[last].environment)
            => new[last].previous_state = None
    BY <1>5, <1>8, <1>11, <2>1, <2>2 DEF PreviousCurrent
  <2>4. ASSUME NEW j \in 1 .. last - 1, new[j].environment = new[last].environment,
               LastBefore(new, last, j)
        PROVE  new[last].previous_state = new[j].new_state
    <3>1. LastBefore(trail, last, j) /\ trail[j].environment = v.environment
      BY <1>5, <1>11, <1>13, <2>1, <2>4
    <3>2. /\ Pointer(v) \in DOMAIN current_versions
          /\ current_versions[Pointer(v)] = trail[j].new_state
      BY ZenonT(40), <1>1, <1>2, <1>6, <2>1, <3>1 DEF Succession
    <3> QED
      BY <1>5, <1>11, <2>1, <3>2 DEF PreviousCurrent
  <2> QED
    BY <1>1, <1>5, <1>10, <1>11, <2>3, <2>4
<1>16. \A i \in 1 .. last : i \in 1 .. Len(trail) \/ i = last
  BY <1>2
<1> QED
  BY <1>5, <1>14, <1>15, <1>16 DEF Succession, LastBefore

\* Every operation keeps the histories.
LEMMA NextHistory == StoreInv /\ History /\ [Next]_store_vars => History'
<1> SUFFICES ASSUME StoreInv, History, [Next]_store_vars PROVE History'
  OBVIOUS
<1>1. TypeOK /\ CurrentVersionsAgree
  BY DEF StoreInv, RegistryInv
<1>2. CASE UNCHANGED registry_vars
  <2> SUFFICES ASSUME NEW app \in AppIds
               PROVE  (Listed(app) /\ Accounted(app) /\ Succession(app))'
    BY DEF History
  <2>1. /\ application_events' = application_events
        /\ applications' = applications
        /\ versions' = versions
        /\ current_versions' = current_versions
    BY <1>2 DEF registry_vars
  <2>2. Listed(app) /\ Accounted(app) /\ Succession(app)
    BY DEF History
  <2>3. OwnVersions(app)' = OwnVersions(app)
    BY <2>1 DEF OwnVersions
  <2>4. Listed(app)'
    BY <2>1, <2>2, <2>3 DEF Listed
  <2>5. Accounted(app)'
    BY <2>1, <2>2, <2>3 DEF Accounted
  <2>6. Succession(app)'
    BY <2>1, <2>2 DEF Succession, LastBefore
  <2> QED
    BY <2>4, <2>5, <2>6
<1>3. ASSUME NEW vid \in VersionIds, NEW v \in Version, RegisterApplication(vid, v)
      PROVE  History'
  <2>1. \A app \in AppIds : app # v.application_id =>
            (Listed(app) /\ Accounted(app) /\ Succession(app))'
    BY <1>1, <1>3, OthersHistoryKept
  <2>2. (Listed(v.application_id) /\ Accounted(v.application_id) /\ Succession(v.application_id))'
    BY <1>1, <1>3, RegistrationListed, RegistrationAccounted, RegistrationSucceeds
  <2> QED
    BY <2>1, <2>2 DEF History
<1>4. CASE Next
  <2>1. \/ \E vid \in VersionIds, v \in Version : RegisterApplication(vid, v)
        \/ UNCHANGED registry_vars
    BY <1>1, <1>4, KindsOfStep DEF EvaluationCreated, EvaluationMoved, PromotionCreated,
       PromotionMoved, RecordEvaluation, RecordPromotion
  <2> QED
    BY <1>2, <1>3, <2>1
<1> QED
  BY <1>2, <1>4 DEF store_vars

\* The audit trail of every application tells its registry state, in whatever order its
\* versions arrive.
THEOREM HistoriesComplete == Spec => []RegistrationHistory
<1>1. StoreInv /\ History => RegistrationHistory
  BY HistoryTold DEF StoreInv
<1> QED
  BY <1>1, InitHistory, NextHistory, StoreInvariant, PTL DEF Spec

==============================================================================
