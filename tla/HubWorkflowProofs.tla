------------------------- MODULE HubWorkflowProofs -------------------------
(***************************************************************************)
(* Theorems about HubWorkflow, for every number of handlers, records and   *)
(* failures.                                                               *)
(*                                                                         *)
(* First, every step of a handler is one operation of the store, on        *)
(* arguments its contract admits, or leaves the store alone; what is       *)
(* proved of the store then holds of the workflow. The operations are      *)
(* called with what a handler has carried from earlier calls, so both      *)
(* facts need the type of its locals, and the type needs the store's: they *)
(* are proved together, action by action.                                  *)
(*                                                                         *)
(* Then its own safety properties. None is inductive: that a job is        *)
(* launched once rests on nobody having presented its token before, that   *)
(* on the status of the record between approval and launch, and that on    *)
(* the row version the handler carries.  EvaluationLaunches,               *)
(* PromotionLaunches and EvidenceCarried say what a handler knows of the   *)
(* stored record at each of its steps.                                     *)
(***************************************************************************)
EXTENDS HubWorkflow, HubRepositoryProofs

-----------------------------------------------------------------------------
(* Locals and results *)

HandlersTypeOK ==
    /\ work \in [Threads -> Work]
    /\ DOMAIN results \subseteq Tokens
    /\ results \in [DOMAIN results -> JobRunIds]
    /\ readiness \in [VersionIds -> Decisions]

\* The step a handler is at tells which locals it has.
LEMMA WorkKinds ==
    ASSUME NEW w \in Work
    PROVE  /\ w.at = "create evaluation" => w \in CreateEvaluationWork
           /\ w.at = "launch evaluation" => w \in LaunchEvaluationWork
           /\ w.at = "record evaluation" => w \in RecordEvaluationWork
           /\ w.at = "assess request" => w \in AssessRequestWork
           /\ w.at = "create promotion" => w \in CreatePromotionWork
           /\ w.at \in {"check source", "assess approval", "resubmit"} => w \in ReviewWork
           /\ w.at = "approve" => w \in ApproveWork
           /\ w.at = "launch promotion" => w \in LaunchPromotionWork
           /\ w.at = "record promotion" => w \in RecordPromotionWork
<1>1. Idle.at = "idle"
  BY DEF Idle
<1>2. \A x \in CreateEvaluationWork : x.at = "create evaluation"
  BY DEF CreateEvaluationWork
<1>3. \A x \in LaunchEvaluationWork : x.at = "launch evaluation"
  BY DEF LaunchEvaluationWork
<1>4. \A x \in RecordEvaluationWork : x.at = "record evaluation"
  BY DEF RecordEvaluationWork
<1>5. \A x \in AssessRequestWork : x.at = "assess request"
  BY DEF AssessRequestWork
<1>6. \A x \in CreatePromotionWork : x.at = "create promotion"
  BY DEF CreatePromotionWork
<1>7. \A x \in ReviewWork : x.at \in {"check source", "assess approval", "resubmit"}
  BY DEF ReviewWork
<1>8. \A x \in ApproveWork : x.at = "approve"
  BY DEF ApproveWork
<1>9. \A x \in LaunchPromotionWork : x.at = "launch promotion"
  BY DEF LaunchPromotionWork
<1>10. \A x \in RecordPromotionWork : x.at = "record promotion"
  BY DEF RecordPromotionWork
<1>11. QED BY <1>1, <1>2, <1>3, <1>4, <1>5, <1>6, <1>7, <1>8, <1>9, <1>10 DEF Work

\* A handler that goes on to a step of its code keeps all handlers typed.
LEMMA ContinueType ==
    ASSUME HandlersTypeOK, NEW t \in Threads, NEW next \in Work, Continue(t, next),
           UNCHANGED <<results, readiness>>
    PROVE  HandlersTypeOK'
BY DEF HandlersTypeOK, Continue

\* A handler that ends keeps all handlers typed.
LEMMA EndType ==
    ASSUME HandlersTypeOK, NEW t \in Threads, End(t), UNCHANGED <<results, readiness>>
    PROVE  HandlersTypeOK'
<1>1. Idle \in Work
  BY DEF Work
<1>2. QED BY <1>1, ContinueType DEF End

\* The runner only adds the run of a token.
LEMMA LaunchType ==
    ASSUME HandlersTypeOK, NEW token \in Tokens, NEW run \in JobRunIds, Launch(token, run)
    PROVE  /\ DOMAIN results' \subseteq Tokens
           /\ results' \in [DOMAIN results' -> JobRunIds]
<1>1. CASE token \in DOMAIN results
  BY <1>1 DEF Launch, HandlersTypeOK
<1>2. CASE token \notin DOMAIN results
  <2>1. results' = Put(results, token, run)
    BY <1>2 DEF Launch
  <2>2. results \in [DOMAIN results -> JobRunIds] /\ DOMAIN results \subseteq Tokens
    BY DEF HandlersTypeOK
  <2>3. DOMAIN results' = DOMAIN results \cup {token}
    BY <2>1, PutFacts
  <2>4. results' \in [DOMAIN results' -> JobRunIds]
    BY <2>1, <2>2, PutType
  <2>5. QED BY <2>2, <2>3, <2>4
<1>3. QED BY <1>1, <1>2

\* A readiness decision makes a snapshot of its version.
LEMMA SnapshotNowType ==
    ASSUME HandlersTypeOK, NEW vid \in VersionIds
    PROVE  SnapshotNow(vid) \in Snapshot
BY DEF HandlersTypeOK, SnapshotNow, Snapshot

-----------------------------------------------------------------------------
(* One lemma for each action: it is a step of the store, or none, and keeps *)
(* the handlers typed.                                                      *)

\* Starting an evaluation reads the current version only.
LEMMA StartEvaluationStep ==
    ASSUME WorkflowTypeOK, NEW t \in Threads, NEW app \in AppIds, NEW env \in Environments,
           StartEvaluation(t, app, env)
    PROVE  [Next]_store_vars /\ HandlersTypeOK'
<1>1. HandlersTypeOK /\ DOMAIN versions \subseteq VersionIds
  BY DEF WorkflowTypeOK, HandlersTypeOK, TypeOK
<1>2. PICK vid \in FlaggedCurrent(app, env) :
          Continue(t, [at |-> "create evaluation", app |-> app, env |-> env, vid |-> vid])
  BY DEF StartEvaluation
<1>3. [at |-> "create evaluation", app |-> app, env |-> env, vid |-> vid] \in Work
  <2>1. vid \in VersionIds
    BY <1>1 DEF FlaggedCurrent
  <2>2. QED BY <2>1 DEF Work, CreateEvaluationWork
<1>4. HandlersTypeOK'
  BY <1>1, <1>2, <1>3, ContinueType DEF StartEvaluation
<1>5. QED BY <1>4 DEF StartEvaluation

\* The handler's create_evaluation is the store's.
LEMMA CallCreateEvaluationStep ==
    ASSUME WorkflowTypeOK, NEW t \in Threads, CallCreateEvaluation(t)
    PROVE  [Next]_store_vars /\ HandlersTypeOK'
<1>1. HandlersTypeOK
  BY DEF WorkflowTypeOK, HandlersTypeOK
<1>2. UNCHANGED <<results, readiness>>
  BY DEF CallCreateEvaluation
<1>3. CASE \E eid \in EvaluationIds, now \in Times :
              /\ CreateEvaluation(eid, work[t].app, work[t].env, work[t].vid, now)
              /\ Continue(t, [at |-> "launch evaluation", eid |-> eid])
  <2>1. work[t] \in CreateEvaluationWork
    BY <1>1, WorkKinds DEF HandlersTypeOK, CallCreateEvaluation
  <2>2. work[t].app \in AppIds /\ work[t].env \in Environments /\ work[t].vid \in VersionIds
    BY <2>1 DEF CreateEvaluationWork
  <2>3. Next
    BY <1>3, <2>2 DEF SomeEvaluationCreated, Next
  <2>4. \A eid \in EvaluationIds : [at |-> "launch evaluation", eid |-> eid] \in Work
    BY DEF Work, LaunchEvaluationWork
  <2>5. HandlersTypeOK'
    BY <1>1, <1>2, <1>3, <2>4, ContinueType
  <2>6. QED BY <2>3, <2>5
<1>4. CASE End(t) /\ UNCHANGED store_vars
  BY <1>1, <1>2, <1>4, EndType
<1>5. QED BY <1>3, <1>4 DEF CallCreateEvaluation

\* A launch does not touch the store.
LEMMA LaunchEvaluationStep ==
    ASSUME WorkflowTypeOK, NEW t \in Threads, LaunchEvaluation(t)
    PROVE  [Next]_store_vars /\ HandlersTypeOK'
<1>1. HandlersTypeOK /\ work[t] \in LaunchEvaluationWork
  BY WorkKinds DEF WorkflowTypeOK, HandlersTypeOK, LaunchEvaluation
<1>2. work[t].eid \in EvaluationIds
  BY <1>1 DEF LaunchEvaluationWork
<1>3. \A status \in {"QUEUED", "FAILED"}, run \in JobRunIds \cup {None} :
          [at |-> "record evaluation", eid |-> work[t].eid, status |-> status,
           run |-> run] \in Work
  BY <1>2 DEF Work, RecordEvaluationWork
<1>4. CASE \E run \in JobRunIds :
              /\ Launch(Token("evaluation", work[t].eid), run)
              /\ Continue(t, [at |-> "record evaluation", eid |-> work[t].eid,
                              status |-> "QUEUED", run |-> run])
  <2>1. Token("evaluation", work[t].eid) \in Tokens
    BY <1>2 DEF Token, Tokens
  <2>2. DOMAIN results' \subseteq Tokens /\ results' \in [DOMAIN results' -> JobRunIds]
    BY <1>1, <1>4, <2>1, LaunchType
  <2>3. work' \in [Threads -> Work]
    BY <1>1, <1>3, <1>4 DEF HandlersTypeOK, Continue
  <2>4. QED BY <1>1, <2>2, <2>3 DEF HandlersTypeOK, LaunchEvaluation
<1>5. CASE /\ Continue(t, [at |-> "record evaluation", eid |-> work[t].eid,
                           status |-> "FAILED", run |-> None])
           /\ UNCHANGED results
  <2>1. HandlersTypeOK'
    BY <1>1, <1>3, <1>5, ContinueType DEF LaunchEvaluation
  <2>2. QED BY <2>1 DEF LaunchEvaluation
<1>6. QED BY <1>4, <1>5 DEF LaunchEvaluation

\* The handler's update_evaluation is the store's, or is refused.
LEMMA CallUpdateEvaluationStep ==
    ASSUME WorkflowTypeOK, NEW t \in Threads, CallUpdateEvaluation(t)
    PROVE  [Next]_store_vars /\ HandlersTypeOK'
<1>1. HandlersTypeOK /\ work[t] \in RecordEvaluationWork
  BY WorkKinds DEF WorkflowTypeOK, HandlersTypeOK, CallUpdateEvaluation
<1>2. HandlersTypeOK'
  BY <1>1, EndType DEF CallUpdateEvaluation
<1>3. CASE UpdateEvaluation(work[t].eid, 1, work[t].status, work[t].run, None)
  <2>1. /\ work[t].eid \in EvaluationIds /\ work[t].status \in EvaluationStatus
        /\ work[t].run \in JobRunIds \cup {None}
    BY <1>1 DEF RecordEvaluationWork, EvaluationStatus
  <2>2. 1 \in RowVersions
    BY <1>3, MaxRowVersionAssumption DEF UpdateEvaluation, RowVersions
  <2>3. Next
    BY <1>3, <2>1, <2>2 DEF SomeEvaluationUpdated, Next
  <2>4. QED BY <1>2, <2>3
<1>4. QED BY <1>2, <1>3 DEF CallUpdateEvaluation

\* Starting a request reads the current version only.
LEMMA StartRequestStep ==
    ASSUME WorkflowTypeOK, NEW t \in Threads, NEW app \in AppIds,
           NEW source \in Environments, NEW target \in Environments,
           NEW requester \in Principals, StartRequest(t, app, source, target, requester)
    PROVE  [Next]_store_vars /\ HandlersTypeOK'
<1>1. HandlersTypeOK /\ DOMAIN versions \subseteq VersionIds
  BY DEF WorkflowTypeOK, HandlersTypeOK, TypeOK
<1>2. PICK vid \in FlaggedCurrent(app, source) :
          Continue(t, [at |-> "assess request", app |-> app, source |-> source,
                       target |-> target, vid |-> vid, requester |-> requester])
  BY DEF StartRequest
<1>3. [at |-> "assess request", app |-> app, source |-> source, target |-> target,
       vid |-> vid, requester |-> requester] \in Work
  <2>1. vid \in VersionIds
    BY <1>1 DEF FlaggedCurrent
  <2>2. QED BY <2>1 DEF Work, AssessRequestWork
<1>4. HandlersTypeOK'
  BY <1>1, <1>2, <1>3, ContinueType DEF StartRequest
<1>5. QED BY <1>4 DEF StartRequest

\* Assessing readiness carries a snapshot of the version that was read.
LEMMA AssessRequestStep ==
    ASSUME WorkflowTypeOK, NEW t \in Threads, AssessRequest(t)
    PROVE  [Next]_store_vars /\ HandlersTypeOK'
<1> DEFINE w == work[t]
           next == [at |-> "create promotion", app |-> w.app, source |-> w.source,
                    target |-> w.target, vid |-> w.vid, requester |-> w.requester,
                    snapshot |-> SnapshotNow(w.vid)]
<1>1. HandlersTypeOK /\ w \in AssessRequestWork
  BY WorkKinds DEF WorkflowTypeOK, HandlersTypeOK, AssessRequest
<1>2. next \in Work
  <2>1. SnapshotNow(w.vid) \in Snapshot
    BY <1>1, SnapshotNowType DEF AssessRequestWork
  <2>2. next \in CreatePromotionWork
    BY <1>1, <2>1 DEF AssessRequestWork, CreatePromotionWork
  <2>3. QED BY <2>2 DEF Work
<1>3. Continue(t, next) \/ End(t)
  BY DEF AssessRequest
<1>4. UNCHANGED <<results, readiness>> /\ UNCHANGED store_vars
  BY DEF AssessRequest
<1>5. HandlersTypeOK'
  <2> HIDE DEF next
  <2>1. QED BY <1>1, <1>2, <1>3, <1>4, ContinueType, EndType
<1>6. QED BY <1>4, <1>5

\* The handler's create_promotion_request is the store's, or is refused.
LEMMA CallCreatePromotionStep ==
    ASSUME WorkflowTypeOK, NEW t \in Threads, CallCreatePromotion(t)
    PROVE  [Next]_store_vars /\ HandlersTypeOK'
<1> DEFINE w == work[t]
<1>1. HandlersTypeOK /\ w \in CreatePromotionWork
  BY WorkKinds DEF WorkflowTypeOK, HandlersTypeOK, CallCreatePromotion
<1>2. HandlersTypeOK'
  BY <1>1, EndType DEF CallCreatePromotion
<1>3. CASE \E pid \in PromotionIds :
              CreatePromotionRequest(pid, w.app, w.source, w.target, w.vid,
                                     w.requester, w.snapshot)
  <2>1. /\ w.app \in AppIds /\ w.source \in Environments /\ w.target \in Environments
        /\ w.vid \in VersionIds /\ w.requester \in Principals /\ w.snapshot \in Snapshot
    BY <1>1 DEF CreatePromotionWork
  <2>2. SomePromotionRequested
    <3> HIDE DEF w
    <3>1. QED BY <1>3, <2>1 DEF SomePromotionRequested
  <2>3. QED BY <1>2, <2>2 DEF Next
<1>4. QED BY <1>2, <1>3 DEF CallCreatePromotion

\* Starting an approval carries the record that was read.
LEMMA StartApprovalStep ==
    ASSUME WorkflowTypeOK, NEW t \in Threads, NEW pid \in PromotionIds,
           NEW actor \in Principals, NEW expected \in RowVersions,
           StartApproval(t, pid, actor, expected)
    PROVE  [Next]_store_vars /\ HandlersTypeOK'
<1> DEFINE next == [at |-> "check source", pid |-> pid, actor |-> actor,
                    expected |-> expected, current |-> promotions[pid]]
<1>1. HandlersTypeOK
  BY DEF WorkflowTypeOK, HandlersTypeOK
<1>2. next \in Work
  <2>1. promotions[pid] \in Promotion
    BY DEF WorkflowTypeOK, TypeOK, StartApproval
  <2>2. next \in ReviewWork
    BY <2>1 DEF ReviewWork
  <2>3. QED BY <2>2 DEF Work
<1>3. HandlersTypeOK'
  BY <1>1, <1>2, ContinueType DEF StartApproval
<1>4. QED BY <1>3 DEF StartApproval

\* The checks before an approval only move the handler on.
LEMMA ApprovalCheckStep ==
    ASSUME WorkflowTypeOK, NEW t \in Threads,
           CheckSource(t) \/ AssessApproval(t) \/ AnswerResubmit(t)
    PROVE  [Next]_store_vars /\ HandlersTypeOK'
<1> DEFINE w == work[t]
           snapshot == SnapshotNow(w.current.application_version_id)
           approve == [at |-> "approve", pid |-> w.pid, actor |-> w.actor,
                       expected |-> w.expected, snapshot |-> snapshot]
<1>1. HandlersTypeOK /\ w \in ReviewWork
  BY WorkKinds DEF WorkflowTypeOK, HandlersTypeOK, CheckSource, AssessApproval,
                   AnswerResubmit
<1>2. approve \in Work
  <2>1. w.current.application_version_id \in VersionIds
    BY <1>1 DEF ReviewWork, Promotion
  <2>2. snapshot \in Snapshot
    BY <1>1, <2>1, SnapshotNowType
  <2> HIDE DEF snapshot
  <2>3. approve \in ApproveWork
    BY <1>1, <2>2 DEF ReviewWork, ApproveWork
  <2>4. QED BY <2>3 DEF Work
<1>3. \A at \in {"assess approval", "resubmit"} : [w EXCEPT !.at = at] \in Work
  <2>1. \A x \in ReviewWork, at \in {"assess approval", "resubmit"} :
            [x EXCEPT !.at = at] \in ReviewWork
    BY DEF ReviewWork
  <2>2. QED BY <1>1, <2>1 DEF Work
<1>4. \/ Continue(t, approve) \/ End(t)
      \/ \E at \in {"assess approval", "resubmit"} : Continue(t, [w EXCEPT !.at = at])
  BY DEF CheckSource, AssessApproval, AnswerResubmit
<1>5. UNCHANGED <<results, readiness>> /\ UNCHANGED store_vars
  BY DEF CheckSource, AssessApproval, AnswerResubmit
<1>6. HandlersTypeOK'
  <2> HIDE DEF approve, w
  <2>1. QED BY <1>1, <1>2, <1>3, <1>4, <1>5, ContinueType, EndType
<1>7. QED BY <1>5, <1>6

\* The handler's approve_promotion is the store's, or is refused.
LEMMA CallApprovePromotionStep ==
    ASSUME WorkflowTypeOK, NEW t \in Threads, CallApprovePromotion(t)
    PROVE  [Next]_store_vars /\ HandlersTypeOK'
<1> DEFINE w == work[t]
           next == [at |-> "launch promotion", pid |-> w.pid, actor |-> w.actor,
                    row_version |-> w.expected + 1]
<1>1. HandlersTypeOK /\ w \in ApproveWork
  BY WorkKinds DEF WorkflowTypeOK, HandlersTypeOK, CallApprovePromotion
<1>2. /\ w.pid \in PromotionIds /\ w.actor \in Principals
      /\ w.expected \in RowVersions /\ w.snapshot \in Snapshot
  BY <1>1 DEF ApproveWork
<1>3. UNCHANGED <<results, readiness>>
  BY DEF CallApprovePromotion
<1>4. CASE ApprovePromotion(w.pid, w.actor, w.expected, w.snapshot) /\ Continue(t, next)
  <2>1. SomePromotionApproved
    <3> HIDE DEF w
    <3>1. QED BY <1>2, <1>4 DEF SomePromotionApproved
  <2>2. w.expected + 1 \in RowVersions
    <3>1. w.expected < MaxRowVersion
      BY <1>4 DEF ApprovePromotion, Reviewable
    <3>2. QED BY <1>2, <3>1, MaxRowVersionAssumption DEF RowVersions
  <2>3. next \in LaunchPromotionWork
    BY <1>2, <2>2 DEF LaunchPromotionWork
  <2>4. HandlersTypeOK'
    <3>1. next \in Work
      BY <2>3 DEF Work
    <3> HIDE DEF next
    <3>2. QED BY <1>1, <1>3, <1>4, <3>1, ContinueType
  <2>5. QED BY <2>1, <2>4 DEF Next
<1>5. CASE End(t) /\ UNCHANGED store_vars
  BY <1>1, <1>3, <1>5, EndType
<1>6. QED BY <1>4, <1>5 DEF CallApprovePromotion

\* A launch does not touch the store.
LEMMA LaunchPromotionStep ==
    ASSUME WorkflowTypeOK, NEW t \in Threads, LaunchPromotion(t)
    PROVE  [Next]_store_vars /\ HandlersTypeOK'
<1> DEFINE w == work[t]
           record(status, run) ==
               [at |-> "record promotion", pid |-> w.pid, actor |-> w.actor,
                row_version |-> w.row_version, status |-> status, run |-> run]
<1>1. HandlersTypeOK /\ w \in LaunchPromotionWork
  BY WorkKinds DEF WorkflowTypeOK, HandlersTypeOK, LaunchPromotion
<1>2. w.pid \in PromotionIds /\ w.actor \in Principals /\ w.row_version \in RowVersions
  BY <1>1 DEF LaunchPromotionWork
<1>3. \A status \in {"EXECUTING", "FAILED"}, run \in JobRunIds \cup {None} :
          record(status, run) \in Work
  BY <1>2 DEF Work, RecordPromotionWork
<1>4. UNCHANGED readiness /\ UNCHANGED store_vars
  BY DEF LaunchPromotion
<1>5. CASE \E run \in JobRunIds :
              /\ Launch(Token("promotion", w.pid), run)
              /\ Continue(t, record("EXECUTING", run))
  <2>1. Token("promotion", w.pid) \in Tokens
    BY <1>2 DEF Token, Tokens
  <2>2. DOMAIN results' \subseteq Tokens /\ results' \in [DOMAIN results' -> JobRunIds]
    BY <1>1, <1>5, <2>1, LaunchType
  <2>3. work' \in [Threads -> Work]
    <3>1. PICK run \in JobRunIds : Continue(t, record("EXECUTING", run))
      BY <1>5
    <3>2. record("EXECUTING", run) \in Work
      BY <1>3
    <3> HIDE DEF record
    <3>3. QED BY <1>1, <3>1, <3>2 DEF HandlersTypeOK, Continue
  <2>4. QED BY <1>1, <1>4, <2>2, <2>3 DEF HandlersTypeOK
<1>6. CASE Continue(t, record("FAILED", None)) /\ UNCHANGED results
  <2>1. record("FAILED", None) \in Work
    BY <1>3
  <2> HIDE DEF record
  <2>2. QED BY <1>1, <1>4, <1>6, <2>1, ContinueType
<1>7. QED BY <1>5, <1>6 DEF LaunchPromotion

\* The handler's update_promotion is the store's, or is refused.
LEMMA CallUpdatePromotionStep ==
    ASSUME WorkflowTypeOK, NEW t \in Threads, CallUpdatePromotion(t)
    PROVE  [Next]_store_vars /\ HandlersTypeOK'
<1> DEFINE w == work[t]
<1>1. HandlersTypeOK /\ w \in RecordPromotionWork
  BY WorkKinds DEF WorkflowTypeOK, HandlersTypeOK, CallUpdatePromotion
<1>2. HandlersTypeOK'
  BY <1>1, EndType DEF CallUpdatePromotion
<1>3. CASE UpdatePromotion(w.pid, w.row_version, w.status, w.run, w.actor, w.actor)
  <2>1. /\ w.pid \in PromotionIds /\ w.row_version \in RowVersions
        /\ w.status \in PromotionStatus /\ w.run \in JobRunIds \cup {None}
        /\ w.actor \in Principals
    BY <1>1 DEF RecordPromotionWork, PromotionStatus
  <2>2. SomePromotionUpdated
    <3> HIDE DEF w
    <3>1. QED BY <1>3, <2>1 DEF SomePromotionUpdated
  <2>3. QED BY <1>2, <2>2 DEF Next
<1>4. QED BY <1>2, <1>3 DEF CallUpdatePromotion

\* The reconciler updates an evaluation through the store.
LEMMA ReconcileStep ==
    ASSUME WorkflowTypeOK, NEW eid \in EvaluationIds, NEW status \in EvaluationStatus,
           Reconcile(eid, status)
    PROVE  [Next]_store_vars /\ HandlersTypeOK'
<1> DEFINE old == evaluations[eid]
<1>1. old \in Evaluation
  BY DEF WorkflowTypeOK, TypeOK, Reconcile
<1>2. UpdateEvaluation(eid, old.row_version, status, old.job_run_id, None)
  BY DEF Reconcile
<1>3. old.row_version \in RowVersions
  BY <1>1, <1>2, MaxRowVersionAssumption
     DEF Evaluation, RowVersion, RowVersions, UpdateEvaluation
<1>4. old.job_run_id \in JobRunIds \cup {None}
  BY <1>1 DEF Evaluation
<1>5. SomeEvaluationUpdated
  <2> HIDE DEF old
  <2>1. QED BY <1>2, <1>3, <1>4 DEF SomeEvaluationUpdated
<1>6. QED BY <1>5 DEF Next, Reconcile, WorkflowTypeOK, HandlersTypeOK

-----------------------------------------------------------------------------
(* The workflow and the store *)

\* Every step of the workflow is one of the store or leaves it alone.
LEMMA WorkflowStep ==
    ASSUME WorkflowTypeOK, [WorkflowNext]_workflow_vars
    PROVE  [Next]_store_vars /\ HandlersTypeOK'
<1>1. HandlersTypeOK
  BY DEF WorkflowTypeOK, HandlersTypeOK
<1>2. CASE \E t \in Threads : HandlerStarts(t)
  BY <1>2, StartEvaluationStep, StartRequestStep, StartApprovalStep DEF HandlerStarts
<1>3. CASE \E t \in Threads : HandlerSteps(t)
  BY <1>3, CallCreateEvaluationStep, LaunchEvaluationStep, CallUpdateEvaluationStep,
     AssessRequestStep, CallCreatePromotionStep, ApprovalCheckStep,
     CallApprovePromotionStep, LaunchPromotionStep, CallUpdatePromotionStep
     DEF HandlerSteps
<1>4. CASE \E t \in Threads : StoreFails(t)
  BY <1>1, <1>4, EndType DEF StoreFails
<1>5. CASE Register \/ Review
  BY <1>1, <1>5 DEF Register, Review, Next, HandlersTypeOK
<1>6. CASE \E eid \in EvaluationIds, status \in EvaluationStatus : Reconcile(eid, status)
  BY <1>6, ReconcileStep
<1>7. CASE \E vid \in VersionIds, decision \in Decisions : EvidenceChanges(vid, decision)
  BY <1>1, <1>7 DEF EvidenceChanges, HandlersTypeOK
<1>8. CASE UNCHANGED workflow_vars
  BY <1>1, <1>8 DEF workflow_vars, HandlersTypeOK
<1>9. QED BY <1>2, <1>3, <1>4, <1>5, <1>6, <1>7, <1>8 DEF WorkflowNext

\* The workflow starts with no handler in progress.
LEMMA InitWorkflow == WorkflowInit => WorkflowTypeOK
<1> SUFFICES ASSUME WorkflowInit PROVE WorkflowTypeOK
  OBVIOUS
<1>1. TypeOK
  BY InitType DEF WorkflowInit
<1>2. work \in [Threads -> Work]
  BY DEF WorkflowInit, Work
<1>3. DOMAIN results = {} /\ results \in [DOMAIN results -> JobRunIds]
  BY DEF WorkflowInit, EmptyDict
<1>4. QED BY <1>1, <1>2, <1>3 DEF WorkflowTypeOK, WorkflowInit

\* Every step keeps store, handlers and runner typed.
LEMMA NextWorkflow == WorkflowTypeOK /\ [WorkflowNext]_workflow_vars => WorkflowTypeOK'
<1> SUFFICES ASSUME WorkflowTypeOK, [WorkflowNext]_workflow_vars PROVE WorkflowTypeOK'
  OBVIOUS
<1>1. [Next]_store_vars /\ HandlersTypeOK'
  BY WorkflowStep
<1>2. TypeOK'
  BY <1>1, NextType DEF WorkflowTypeOK
<1>3. QED BY <1>1, <1>2 DEF WorkflowTypeOK, HandlersTypeOK

\* However many requests interleave and fail, a handler only carries what its
\* code could have read or built.
THEOREM WorkflowTyped == WorkflowSpec => []WorkflowTypeOK
BY InitWorkflow, NextWorkflow, PTL DEF WorkflowSpec

\* Seen from the stored records, requests are calls of the store.
LEMMA HandlersCallStore == WorkflowSpec => Spec
<1>1. WorkflowInit => Init
  BY DEF WorkflowInit
<1>2. WorkflowTypeOK /\ [WorkflowNext]_workflow_vars => [Next]_store_vars
  BY WorkflowStep
<1>3. QED BY <1>1, <1>2, WorkflowTyped, PTL DEF WorkflowSpec, Spec

\* What was proved of the store therefore holds while handlers run: no two jobs
\* can be asked for the same evidence, and approvals stay four-eyes and backed.
THEOREM WorkflowKeepsStore == WorkflowSpec => []StoreInv
BY HandlersCallStore, StoreInvariant, PTL

-----------------------------------------------------------------------------
(* The inductive invariants *)

\* A handler that launches an evaluation is the only one; it presents the token
\* first, and records the run it was given. Runs and tokens are of stored
\* evaluations. What waits was not updated yet, and has its handler.
EvaluationHeld(t, e) ==
    /\ e \in DOMAIN evaluations
    /\ \A u \in Threads : Launching(u, e) => u = t
    /\ work[t].at = "launch evaluation" => Token("evaluation", e) \notin DOMAIN results
    /\ (work[t].at = "record evaluation" /\ work[t].run # None) =>
           /\ Token("evaluation", e) \in DOMAIN results
           /\ results[Token("evaluation", e)] = work[t].run

EvaluationRunKnown(e) ==
    evaluations[e].job_run_id # None =>
        /\ Token("evaluation", e) \in DOMAIN results
        /\ results[Token("evaluation", e)] = evaluations[e].job_run_id

EvaluationLaunches ==
    /\ \A t \in Threads, e \in EvaluationIds : Launching(t, e) => EvaluationHeld(t, e)
    /\ \A e \in EvaluationIds :
           Token("evaluation", e) \in DOMAIN results => e \in DOMAIN evaluations
    /\ \A e \in DOMAIN evaluations : EvaluationRunKnown(e)
    /\ \A e \in EvaluationIds : EvaluationWaits(e) =>
           /\ evaluations[e].row_version = 1
           /\ Failures \/ \E t \in Threads : Launching(t, e)

\* A handler that launches a promotion is the only one, and the approval it was
\* given stands, at the row version it holds, until it records the launch.
PromotionHeld(t, p) ==
    /\ p \in DOMAIN promotions
    /\ promotions[p].status = "APPROVED"
    /\ promotions[p].row_version = work[t].row_version
    /\ \A u \in Threads : Promoting(u, p) => u = t
    /\ work[t].at = "launch promotion" => Token("promotion", p) \notin DOMAIN results
    /\ work[t].at = "record promotion" =>
           IF work[t].status = "EXECUTING"
           THEN /\ Token("promotion", p) \in DOMAIN results
                /\ results[Token("promotion", p)] = work[t].run
           ELSE Token("promotion", p) \notin DOMAIN results

PromotionRunKnown(p) ==
    promotions[p].status = "EXECUTING" =>
        /\ Token("promotion", p) \in DOMAIN results
        /\ results[Token("promotion", p)] = promotions[p].promotion_job_run_id

PromotionLaunches ==
    /\ \A t \in Threads, p \in PromotionIds : Promoting(t, p) => PromotionHeld(t, p)
    /\ \A p \in PromotionIds : Token("promotion", p) \in DOMAIN results =>
           p \in DOMAIN promotions /\ promotions[p].status \in {"APPROVED", "EXECUTING"}
    /\ \A p \in DOMAIN promotions : PromotionRunKnown(p)
    /\ \A p \in PromotionIds : PromotionWaits(p) =>
           Failures \/ \E t \in Threads : Promoting(t, p)

\* Requests are made on ready evidence, and a reviewer holds the request's own.
EvidenceHeld(t) ==
    /\ work[t].at = "create promotion" => work[t].snapshot.decision \in ReadyDecisions
    /\ work[t].at \in {"check source", "assess approval", "resubmit"} =>
           /\ work[t].pid \in DOMAIN promotions
           /\ work[t].current.readiness_snapshot
                  = promotions[work[t].pid].readiness_snapshot
    /\ work[t].at = "approve" =>
           /\ work[t].pid \in DOMAIN promotions
           /\ work[t].snapshot.decision
                  = promotions[work[t].pid].readiness_snapshot.decision

SameEvidenceApproved(promotion) ==
    /\ promotion.readiness_snapshot.decision \in ReadyDecisions
    /\ promotion.approval_readiness_snapshot # None =>
           promotion.approval_readiness_snapshot.decision
               = promotion.readiness_snapshot.decision

EvidenceCarried ==
    /\ \A t \in Threads : EvidenceHeld(t)
    /\ \A p \in DOMAIN promotions : SameEvidenceApproved(promotions[p])

\* All a handler knows of the store, and what follows once its work is recorded.
WorkflowInv ==
    WorkflowTypeOK /\ EvaluationLaunches /\ PromotionLaunches /\ EvidenceCarried

-----------------------------------------------------------------------------
(* What a call does to launches and tokens *)

EvaluationSteps == {"launch evaluation", "record evaluation"}
PromotionSteps == {"launch promotion", "record promotion"}

\* The runs of a workflow's tokens are kept, and none is added.
RunsKept(workflow) ==
    \A id : /\ Token(workflow, id) \in DOMAIN results'
                   <=> Token(workflow, id) \in DOMAIN results
            /\ Token(workflow, id) \in DOMAIN results =>
                   results'[Token(workflow, id)] = results[Token(workflow, id)]

\* No handler enters a step, or leaves one but for a failure.
NoneMoves(steps) ==
    \A u \in Threads :
        \/ work'[u] = work[u]
        \/ /\ work'[u].at \notin steps
           /\ Failures \/ work[u].at \notin steps

EvaluationsAside ==
    UNCHANGED evaluations /\ RunsKept("evaluation") /\ NoneMoves(EvaluationSteps)

PromotionsAside ==
    UNCHANGED promotions /\ RunsKept("promotion") /\ NoneMoves(PromotionSteps)

\* A run is added under its token, and the others are kept.
LEMMA LaunchAdds ==
    ASSUME NEW token, NEW run, Launch(token, run)
    PROVE  /\ DOMAIN results' = DOMAIN results \cup {token}
           /\ results'[token] = run
           /\ \A other \in DOMAIN results : results'[other] = results[other]
<1>1. CASE token \in DOMAIN results
  BY <1>1 DEF Launch
<1>2. CASE token \notin DOMAIN results
  BY <1>2 DEF Launch, Put
<1>3. QED BY <1>1, <1>2

\* Tokens tell records and workflows apart.
LEMMA TokensDiffer ==
    /\ \A a, b : Token("evaluation", a) # Token("promotion", b)
    /\ \A w, a, b : a # b => Token(w, a) # Token(w, b)
BY DEF Token

-----------------------------------------------------------------------------
(* Launches of evaluations *)

\* What is not about evaluations keeps their launches.
LEMMA EvaluationsAsideKept ==
    ASSUME EvaluationLaunches, EvaluationsAside
    PROVE  EvaluationLaunches'
<1>1. \A u \in Threads, e \in EvaluationIds :
          Launching(u, e)' => work'[u] = work[u] /\ Launching(u, e)
  BY DEF EvaluationsAside, NoneMoves, EvaluationSteps, Launching
<1>2. \A t \in Threads, e \in EvaluationIds : Launching(t, e)' => EvaluationHeld(t, e)'
  BY <1>1 DEF EvaluationLaunches, EvaluationHeld, EvaluationsAside, RunsKept
<1>3. \A e \in DOMAIN evaluations : EvaluationRunKnown(e)'
  BY DEF EvaluationLaunches, EvaluationsAside, RunsKept, EvaluationRunKnown
<1>4. ASSUME NEW e \in EvaluationIds, EvaluationWaits(e)'
      PROVE  /\ evaluations'[e].row_version = 1
             /\ Failures \/ \E t \in Threads : Launching(t, e)'
  <2>1. /\ evaluations'[e].row_version = 1
        /\ Failures \/ \E t \in Threads : Launching(t, e)
    BY <1>4 DEF EvaluationLaunches, EvaluationsAside, EvaluationWaits
  <2>2. ASSUME ~ Failures, NEW t \in Threads, Launching(t, e)
        PROVE  Launching(t, e)'
    BY <2>2 DEF EvaluationsAside, NoneMoves, EvaluationSteps, Launching
  <2>3. QED BY <2>1, <2>2
<1>5. QED BY <1>2, <1>3, <1>4 DEF EvaluationLaunches, EvaluationsAside, RunsKept

\* A created evaluation has no run, and its handler is the only one.
LEMMA EvaluationCreatedKept ==
    ASSUME WorkflowTypeOK, EvaluationLaunches,
           NEW t \in Threads, NEW eid \in EvaluationIds, NEW new \in Evaluation,
           work[t].at = "create evaluation", eid \notin DOMAIN evaluations,
           evaluations' = Put(evaluations, eid, new),
           new.job_run_id = None, new.row_version = 1,
           Continue(t, [at |-> "launch evaluation", eid |-> eid]), UNCHANGED results
    PROVE  EvaluationLaunches'
<1>1. /\ work'[t].at = "launch evaluation" /\ work'[t].eid = eid
      /\ \A u \in Threads \ {t} : work'[u] = work[u]
  BY DEF WorkflowTypeOK, Continue
<1>2. /\ DOMAIN evaluations' = DOMAIN evaluations \cup {eid}
      /\ evaluations'[eid] = new
      /\ \A e \in DOMAIN evaluations : evaluations'[e] = evaluations[e]
  BY DEF Put
<1>3. \A u \in Threads, e \in EvaluationIds :
          Launching(u, e)' <=> (Launching(u, e) \/ (u = t /\ e = eid))
  <2>1. \A e : Launching(t, e)' <=> e = eid
    BY <1>1 DEF Launching
  <2>2. \A e : ~ Launching(t, e)
    BY DEF Launching
  <2>3. \A u \in Threads \ {t} : \A e : Launching(u, e)' <=> Launching(u, e)
    BY <1>1 DEF Launching
  <2>4. QED BY <2>1, <2>2, <2>3
<1>4. /\ \A u \in Threads : ~ Launching(u, eid)
      /\ Token("evaluation", eid) \notin DOMAIN results
      /\ \A e \in EvaluationIds : ~ Launching(t, e)
  BY DEF EvaluationLaunches, EvaluationHeld, Launching
<1>5. ASSUME NEW u \in Threads, NEW e \in EvaluationIds, Launching(u, e)'
      PROVE  EvaluationHeld(u, e)'
  <2>1. CASE u = t
    <3>1. e = eid
      BY <1>3, <1>4, <1>5, <2>1
    <3>2. QED BY <1>1, <1>2, <1>3, <1>4, <2>1, <3>1 DEF EvaluationHeld
  <2>2. CASE u # t
    <3>1. Launching(u, e) /\ EvaluationHeld(u, e) /\ e # eid
      BY <1>3, <1>4, <1>5, <2>2 DEF EvaluationLaunches
    <3>2. \A x \in Threads : Launching(x, e)' => x = u
      BY <1>3, <3>1 DEF EvaluationHeld
    <3>3. QED BY <1>1, <1>2, <2>2, <3>1, <3>2 DEF EvaluationHeld
  <2>3. QED BY <2>1, <2>2
<1>6. \A e \in DOMAIN evaluations' : EvaluationRunKnown(e)'
  BY <1>2 DEF EvaluationLaunches, EvaluationRunKnown
<1>7. \A e \in EvaluationIds : EvaluationWaits(e)' =>
          /\ evaluations'[e].row_version = 1
          /\ Failures \/ \E u \in Threads : Launching(u, e)'
  BY <1>2, <1>3 DEF EvaluationLaunches, EvaluationWaits
<1>8. QED BY <1>2, <1>5, <1>6, <1>7 DEF EvaluationLaunches

\* A launch, or a refused one, is still to be recorded by the same handler.
LEMMA LaunchEvaluationKept ==
    ASSUME WorkflowTypeOK, EvaluationLaunches, NEW t \in Threads, LaunchEvaluation(t)
    PROVE  EvaluationLaunches'
<1>0. PICK eid \in EvaluationIds : eid = work[t].eid /\ work[t].at = "launch evaluation"
  <2>1. work[t] \in LaunchEvaluationWork
    BY WorkKinds DEF WorkflowTypeOK, LaunchEvaluation
  <2>2. QED BY <2>1 DEF LaunchEvaluationWork
<1>1. /\ Launching(t, eid) /\ EvaluationHeld(t, eid)
      /\ Token("evaluation", eid) \notin DOMAIN results
      /\ UNCHANGED evaluations
  <2>1. Launching(t, eid)
    BY <1>0 DEF Launching
  <2>2. EvaluationHeld(t, eid)
    BY <2>1 DEF EvaluationLaunches
  <2>3. UNCHANGED evaluations
    BY DEF LaunchEvaluation, store_vars, evaluation_vars
  <2>4. QED BY <1>0, <2>1, <2>2, <2>3 DEF EvaluationHeld
<1>2. PICK run, status :
          /\ \/ /\ run = results'[Token("evaluation", eid)]
                /\ DOMAIN results' = DOMAIN results \cup {Token("evaluation", eid)}
                /\ \A other \in DOMAIN results : results'[other] = results[other]
             \/ run = None /\ UNCHANGED results
          /\ work' = [work EXCEPT ![t] = [at |-> "record evaluation", eid |-> eid,
                                          status |-> status, run |-> run]]
  <2>1. CASE \E run \in JobRunIds :
               /\ Launch(Token("evaluation", eid), run)
               /\ Continue(t, [at |-> "record evaluation", eid |-> eid,
                               status |-> "QUEUED", run |-> run])
    <3>1. PICK run \in JobRunIds :
              /\ Launch(Token("evaluation", eid), run)
              /\ Continue(t, [at |-> "record evaluation", eid |-> eid,
                              status |-> "QUEUED", run |-> run])
      BY <2>1
    <3>2. /\ DOMAIN results' = DOMAIN results \cup {Token("evaluation", eid)}
          /\ results'[Token("evaluation", eid)] = run
          /\ \A other \in DOMAIN results : results'[other] = results[other]
      BY <3>1, LaunchAdds
    <3>3. QED BY <3>1, <3>2 DEF Continue
  <2>2. CASE /\ Continue(t, [at |-> "record evaluation", eid |-> eid,
                             status |-> "FAILED", run |-> None])
             /\ UNCHANGED results
    BY <2>2 DEF Continue
  <2>3. QED BY <1>0, <2>1, <2>2 DEF LaunchEvaluation
<1>3. /\ work'[t].at = "record evaluation" /\ work'[t].eid = eid /\ work'[t].run = run
      /\ \A u \in Threads \ {t} : work'[u] = work[u]
  BY <1>2 DEF WorkflowTypeOK
<1>4. \A u \in Threads, e \in EvaluationIds : Launching(u, e)' <=> Launching(u, e)
  BY <1>0, <1>1, <1>3 DEF Launching
<1>5. \A e : e # eid =>
          /\ Token("evaluation", e) \in DOMAIN results'
                 <=> Token("evaluation", e) \in DOMAIN results
          /\ Token("evaluation", e) \in DOMAIN results =>
                 results'[Token("evaluation", e)] = results[Token("evaluation", e)]
  <2>1. \A e : e # eid => Token("evaluation", e) # Token("evaluation", eid)
    BY TokensDiffer
  <2>2. CASE UNCHANGED results
    BY <2>2
  <2>3. CASE /\ DOMAIN results' = DOMAIN results \cup {Token("evaluation", eid)}
             /\ \A other \in DOMAIN results : results'[other] = results[other]
    BY <2>1, <2>3
  <2>4. QED BY <1>2, <2>2, <2>3
<1>6. ASSUME NEW u \in Threads, NEW e \in EvaluationIds, Launching(u, e)'
      PROVE  EvaluationHeld(u, e)'
  <2>1. Launching(u, e) /\ EvaluationHeld(u, e)
    BY <1>4, <1>6 DEF EvaluationLaunches
  <2>2. \A x \in Threads : Launching(x, e)' => x = u
    BY <1>4, <2>1 DEF EvaluationHeld
  <2>3. CASE u = t
    <3>1. e = eid
      BY <1>0, <2>1, <2>3 DEF Launching
    <3>2. QED BY <1>1, <1>2, <1>3, <2>2, <2>3, <3>1 DEF EvaluationHeld
  <2>4. CASE u # t
    <3>1. e # eid
      BY <1>1, <2>1, <2>4 DEF EvaluationHeld
    <3>2. QED BY <1>1, <1>3, <1>5, <2>1, <2>2, <2>4, <3>1 DEF EvaluationHeld
  <2>5. QED BY <2>3, <2>4
<1>7. \A e \in DOMAIN evaluations : EvaluationRunKnown(e)'
  BY <1>1, <1>2, <1>5 DEF EvaluationLaunches, EvaluationRunKnown
<1>8. \A e \in EvaluationIds :
          Token("evaluation", e) \in DOMAIN results' => e \in DOMAIN evaluations
  BY <1>1, <1>5 DEF EvaluationLaunches, EvaluationHeld
<1>9. \A e \in EvaluationIds : EvaluationWaits(e)' =>
          /\ evaluations'[e].row_version = 1
          /\ Failures \/ \E u \in Threads : Launching(u, e)'
  BY <1>1, <1>4 DEF EvaluationLaunches, EvaluationWaits
<1>10. QED BY <1>1, <1>6, <1>7, <1>8, <1>9 DEF EvaluationLaunches

\* An evaluation that no longer waits may be left by its handler.
LEMMA EvaluationRecordedKept ==
    ASSUME EvaluationLaunches, NEW eid \in DOMAIN evaluations,
           DOMAIN evaluations' = DOMAIN evaluations,
           \A e \in DOMAIN evaluations \ {eid} : evaluations'[e] = evaluations[e],
           ~ EvaluationWaits(eid)', EvaluationRunKnown(eid)', UNCHANGED results,
           \A u \in Threads : work'[u] = work[u] \/
               /\ work'[u] = Idle
               /\ \A e \in EvaluationIds : Launching(u, e) => e = eid
    PROVE  EvaluationLaunches'
<1>1. \A u \in Threads, e \in EvaluationIds :
          Launching(u, e)' => work'[u] = work[u] /\ Launching(u, e)
  <2>1. Idle.at = "idle"
    BY DEF Idle
  <2>2. QED BY <2>1 DEF Launching
<1>2. \A u \in Threads, e \in EvaluationIds : Launching(u, e)' => EvaluationHeld(u, e)'
  BY ZenonT(40), <1>1 DEF EvaluationLaunches, EvaluationHeld
<1>3. \A e \in DOMAIN evaluations : EvaluationRunKnown(e)'
  BY DEF EvaluationLaunches, EvaluationRunKnown
<1>4. ASSUME NEW e \in EvaluationIds, EvaluationWaits(e)'
      PROVE  /\ evaluations'[e].row_version = 1
             /\ Failures \/ \E t \in Threads : Launching(t, e)'
  <2>1. e # eid /\ EvaluationWaits(e) /\ evaluations'[e] = evaluations[e]
    BY <1>4 DEF EvaluationWaits
  <2>2. /\ evaluations[e].row_version = 1
        /\ Failures \/ \E t \in Threads : Launching(t, e)
    BY <2>1 DEF EvaluationLaunches
  <2>3. \A t \in Threads : Launching(t, e) => Launching(t, e)'
    BY <2>1 DEF Launching
  <2>4. QED BY <2>1, <2>2, <2>3
<1>5. QED BY <1>2, <1>3, <1>4 DEF EvaluationLaunches

\* The handler records the run it was given, or finds the record updated.
LEMMA CallUpdateEvaluationKept ==
    ASSUME WorkflowTypeOK, EvaluationLaunches, NEW t \in Threads, CallUpdateEvaluation(t)
    PROVE  EvaluationLaunches'
<1>1. PICK eid \in EvaluationIds, status \in {"QUEUED", "FAILED"},
           run \in JobRunIds \cup {None} :
           /\ work[t].at = "record evaluation" /\ work[t].eid = eid
           /\ work[t].status = status /\ work[t].run = run
  <2>1. work[t] \in RecordEvaluationWork
    BY WorkKinds DEF WorkflowTypeOK, CallUpdateEvaluation
  <2>2. QED BY <2>1 DEF RecordEvaluationWork, CallUpdateEvaluation
<1>2. EvaluationTypeOK
  BY TypeOKSplit DEF WorkflowTypeOK
<1>3. EvaluationHeld(t, eid)
  BY <1>1 DEF EvaluationLaunches, Launching
<1>4. eid \in DOMAIN evaluations
  BY <1>3 DEF EvaluationHeld
<1>5. /\ \A u \in Threads : work'[u] = work[u] \/
             /\ work'[u] = Idle
             /\ \A e \in EvaluationIds : Launching(u, e) => e = eid
      /\ UNCHANGED results
  <2>1. work'[t] = Idle /\ \A u \in Threads \ {t} : work'[u] = work[u]
    BY DEF WorkflowTypeOK, CallUpdateEvaluation, End, Continue
  <2>2. \A e \in EvaluationIds : Launching(t, e) => e = eid
    BY <1>1 DEF Launching
  <2>3. QED BY <2>1, <2>2 DEF CallUpdateEvaluation
<1>6. CASE UpdateEvaluation(eid, 1, status, run, None)
  <2>1. 1 \in RowVersions /\ status \in EvaluationStatus
    BY <1>6, MaxRowVersionAssumption DEF UpdateEvaluation, RowVersions, EvaluationStatus
  <2>2. \E new \in Evaluation : /\ RecordEvaluation(eid, evaluations[eid].status, new)
                                /\ new.status = status
                                /\ new.job_run_id = run
    BY <1>2, <1>6, <2>1, UpdateEvaluationRecords
  <2>3. PICK new \in Evaluation : /\ evaluations' = Put(evaluations, eid, new)
                                  /\ new.status = status
                                  /\ new.job_run_id = run
    BY <2>2 DEF RecordEvaluation
  <2>4. /\ DOMAIN evaluations' = DOMAIN evaluations /\ evaluations'[eid] = new
        /\ \A e \in DOMAIN evaluations \ {eid} : evaluations'[e] = evaluations[e]
    BY <1>4, <2>3 DEF Put
  <2>5. EvaluationRunKnown(eid)' /\ ~ EvaluationWaits(eid)'
    BY <1>1, <1>3, <1>5, <2>3, <2>4 DEF EvaluationHeld, EvaluationRunKnown, EvaluationWaits
  <2>6. QED BY <1>4, <1>5, <2>4, <2>5, EvaluationRecordedKept
<1>7. CASE ~ RowVersionMatches(evaluations[eid].row_version, 1) /\ UNCHANGED store_vars
  <2>1. UNCHANGED evaluations
    BY <1>7 DEF store_vars, evaluation_vars
  <2>2. ~ EvaluationWaits(eid) /\ EvaluationRunKnown(eid)
    BY <1>4, <1>7 DEF EvaluationLaunches, RowVersionMatches
  <2>3. EvaluationRunKnown(eid)' /\ ~ EvaluationWaits(eid)'
    BY <1>5, <2>1, <2>2 DEF EvaluationRunKnown, EvaluationWaits
  <2>4. QED BY <1>4, <1>5, <2>1, <2>3, EvaluationRecordedKept
<1>8. QED BY <1>1, <1>6, <1>7 DEF CallUpdateEvaluation

\* The reconciler keeps the run and never asks for the launch again.
LEMMA ReconcileKept ==
    ASSUME WorkflowTypeOK, EvaluationLaunches, NEW eid \in EvaluationIds,
           NEW status \in EvaluationStatus, Reconcile(eid, status)
    PROVE  EvaluationLaunches'
<1> DEFINE old == evaluations[eid]
<1>1. /\ eid \in DOMAIN evaluations /\ old \in Evaluation /\ EvaluationTypeOK
      /\ status # "REQUESTED" /\ UNCHANGED <<work, results>>
  BY TypeOKSplit DEF WorkflowTypeOK, TypeOK, Reconcile
<1>2. UpdateEvaluation(eid, old.row_version, status, old.job_run_id, None)
  BY DEF Reconcile
<1>3. old.row_version \in RowVersions /\ old.job_run_id \in JobRunIds \cup {None}
  BY <1>1, <1>2, MaxRowVersionAssumption
     DEF Evaluation, RowVersion, RowVersions, UpdateEvaluation
<1>4. PICK new \in Evaluation : /\ evaluations' = Put(evaluations, eid, new)
                                /\ new.status = status
                                /\ new.job_run_id = old.job_run_id
  <2> HIDE DEF old
  <2>1. \E new \in Evaluation : /\ RecordEvaluation(eid, evaluations[eid].status, new)
                                /\ new.status = status
                                /\ new.job_run_id = old.job_run_id
    BY <1>1, <1>2, <1>3, UpdateEvaluationRecords
  <2>2. QED BY <2>1 DEF RecordEvaluation
<1>5. /\ DOMAIN evaluations' = DOMAIN evaluations /\ evaluations'[eid] = new
      /\ \A e \in DOMAIN evaluations \ {eid} : evaluations'[e] = evaluations[e]
  BY <1>1, <1>4 DEF Put
<1>6. EvaluationRunKnown(eid)' /\ ~ EvaluationWaits(eid)'
  BY <1>1, <1>4, <1>5 DEF EvaluationLaunches, EvaluationRunKnown, EvaluationWaits
<1>7. QED BY <1>1, <1>5, <1>6, EvaluationRecordedKept

-----------------------------------------------------------------------------
(* Launches of promotions *)

\* What is not about promotions keeps their launches.
LEMMA PromotionsAsideKept ==
    ASSUME PromotionLaunches, PromotionsAside
    PROVE  PromotionLaunches'
<1>1. \A u \in Threads, p \in PromotionIds :
          Promoting(u, p)' => work'[u] = work[u] /\ Promoting(u, p)
  BY DEF PromotionsAside, NoneMoves, PromotionSteps, Promoting
<1>2. ASSUME NEW u \in Threads, NEW p \in PromotionIds, Promoting(u, p)'
      PROVE  PromotionHeld(u, p)'
  <2>1. work'[u] = work[u] /\ PromotionHeld(u, p)
    BY <1>1, <1>2 DEF PromotionLaunches
  <2>2. \A x \in Threads : Promoting(x, p)' => x = u
    BY <1>1, <2>1 DEF PromotionHeld
  <2>3. QED BY <2>1, <2>2 DEF PromotionHeld, PromotionsAside, RunsKept
<1>3. \A p \in DOMAIN promotions : PromotionRunKnown(p)'
  BY DEF PromotionLaunches, PromotionsAside, RunsKept, PromotionRunKnown
<1>4. ASSUME NEW p \in PromotionIds, PromotionWaits(p)'
      PROVE  Failures \/ \E t \in Threads : Promoting(t, p)'
  <2>1. Failures \/ \E t \in Threads : Promoting(t, p)
    BY <1>4 DEF PromotionLaunches, PromotionsAside, PromotionWaits
  <2>2. ASSUME ~ Failures, NEW t \in Threads, Promoting(t, p)
        PROVE  Promoting(t, p)'
    BY <2>2 DEF PromotionsAside, NoneMoves, PromotionSteps, Promoting
  <2>3. QED BY <2>1, <2>2
<1>5. QED BY <1>2, <1>3, <1>4 DEF PromotionLaunches, PromotionsAside, RunsKept

\* A request made, rejected or sent back has no handler and no run.
LEMMA PromotionReviewedKept ==
    ASSUME PromotionLaunches, NEW pid \in PromotionIds,
           pid \in DOMAIN promotions => promotions[pid].status = "PENDING_REVIEW",
           DOMAIN promotions' = DOMAIN promotions \cup {pid},
           \A p \in DOMAIN promotions \ {pid} : promotions'[p] = promotions[p],
           promotions'[pid].status \notin {"APPROVED", "EXECUTING"},
           UNCHANGED results, NoneMoves(PromotionSteps)
    PROVE  PromotionLaunches'
<1>1. /\ \A u \in Threads : ~ Promoting(u, pid)
      /\ Token("promotion", pid) \notin DOMAIN results
  BY DEF PromotionLaunches, PromotionHeld
<1>2. \A u \in Threads, p \in PromotionIds :
          Promoting(u, p)' => work'[u] = work[u] /\ Promoting(u, p)
  BY DEF NoneMoves, PromotionSteps, Promoting
<1>3. ASSUME NEW u \in Threads, NEW p \in PromotionIds, Promoting(u, p)'
      PROVE  PromotionHeld(u, p)'
  <2>1. work'[u] = work[u] /\ PromotionHeld(u, p) /\ p # pid
    BY <1>1, <1>2, <1>3 DEF PromotionLaunches
  <2>2. promotions'[p] = promotions[p] /\ p \in DOMAIN promotions'
    BY <2>1 DEF PromotionHeld
  <2>3. \A x \in Threads : Promoting(x, p)' => x = u
    BY <1>2, <2>1 DEF PromotionHeld
  <2>4. QED BY <2>1, <2>2, <2>3 DEF PromotionHeld
<1>4. \A p \in PromotionIds : Token("promotion", p) \in DOMAIN results =>
          p \in DOMAIN promotions' /\ promotions'[p].status \in {"APPROVED", "EXECUTING"}
  BY <1>1 DEF PromotionLaunches
<1>5. \A p \in DOMAIN promotions' : PromotionRunKnown(p)'
  BY DEF PromotionLaunches, PromotionRunKnown
<1>6. ASSUME NEW p \in PromotionIds, PromotionWaits(p)'
      PROVE  Failures \/ \E t \in Threads : Promoting(t, p)'
  <2>1. Failures \/ \E t \in Threads : Promoting(t, p)
    BY <1>6 DEF PromotionLaunches, PromotionWaits
  <2>2. ASSUME ~ Failures, NEW t \in Threads, Promoting(t, p)
        PROVE  Promoting(t, p)'
    BY <2>2 DEF NoneMoves, PromotionSteps, Promoting
  <2>3. QED BY <2>1, <2>2
<1>7. QED BY <1>3, <1>4, <1>5, <1>6 DEF PromotionLaunches

\* An approval is held by the handler that asked for it, and has no run.
LEMMA PromotionApprovedKept ==
    ASSUME WorkflowTypeOK, PromotionLaunches, NEW t \in Threads,
           NEW pid \in DOMAIN promotions, pid \in PromotionIds,
           work[t].at = "approve", promotions[pid].status = "PENDING_REVIEW",
           DOMAIN promotions' = DOMAIN promotions,
           \A p \in DOMAIN promotions \ {pid} : promotions'[p] = promotions[p],
           promotions'[pid].status = "APPROVED",
           work'[t].at = "launch promotion", work'[t].pid = pid,
           work'[t].row_version = promotions'[pid].row_version,
           \A u \in Threads \ {t} : work'[u] = work[u],
           UNCHANGED results
    PROVE  PromotionLaunches'
<1>1. /\ \A u \in Threads : ~ Promoting(u, pid)
      /\ Token("promotion", pid) \notin DOMAIN results
  BY DEF PromotionLaunches, PromotionHeld
<1>2. \A u \in Threads, p \in PromotionIds :
          Promoting(u, p)' <=> (Promoting(u, p) \/ (u = t /\ p = pid))
  <2>1. \A p : Promoting(t, p)' <=> p = pid
    BY DEF Promoting
  <2>2. \A p : ~ Promoting(t, p)
    BY DEF Promoting
  <2>3. \A u \in Threads \ {t} : \A p : Promoting(u, p)' <=> Promoting(u, p)
    BY DEF Promoting
  <2>4. QED BY <2>1, <2>2, <2>3
<1>3. ASSUME NEW u \in Threads, NEW p \in PromotionIds, Promoting(u, p)'
      PROVE  PromotionHeld(u, p)'
  <2>1. CASE u = t /\ p = pid
    <3>1. \A x \in Threads : Promoting(x, pid)' => x = t
      BY <1>1, <1>2
    <3>2. QED BY <1>1, <2>1, <3>1 DEF PromotionHeld
  <2>2. CASE Promoting(u, p)
    <3>1. PromotionHeld(u, p) /\ p # pid
      BY <1>1, <2>2 DEF PromotionLaunches
    <3>2. u # t /\ promotions'[p] = promotions[p] /\ p \in DOMAIN promotions
      BY <2>2, <3>1 DEF PromotionHeld, Promoting
    <3>3. \A x \in Threads : Promoting(x, p)' => x = u
      BY <1>2, <3>1 DEF PromotionHeld
    <3>4. QED BY <3>1, <3>2, <3>3 DEF PromotionHeld
  <2>3. QED BY <1>2, <1>3, <2>1, <2>2
<1>4. \A p \in PromotionIds : Token("promotion", p) \in DOMAIN results =>
          p \in DOMAIN promotions' /\ promotions'[p].status \in {"APPROVED", "EXECUTING"}
  BY <1>1 DEF PromotionLaunches
<1>5. \A p \in DOMAIN promotions' : PromotionRunKnown(p)'
  <2>1. \A p \in DOMAIN promotions \ {pid} : PromotionRunKnown(p)'
    BY DEF PromotionLaunches, PromotionRunKnown
  <2>2. PromotionRunKnown(pid)'
    BY DEF PromotionRunKnown
  <2>3. QED BY <2>1, <2>2
<1>6. \A p \in PromotionIds : PromotionWaits(p)' =>
          Failures \/ \E u \in Threads : Promoting(u, p)'
  BY ZenonT(40), <1>2 DEF PromotionLaunches, PromotionWaits
<1>7. QED BY <1>3, <1>4, <1>5, <1>6 DEF PromotionLaunches

\* A launch, or a refused one, is still to be recorded by the same handler.
LEMMA LaunchPromotionKept ==
    ASSUME WorkflowTypeOK, PromotionLaunches, NEW t \in Threads, LaunchPromotion(t)
    PROVE  PromotionLaunches'
<1>0. PICK pid \in PromotionIds, row_version \in RowVersions :
          /\ pid = work[t].pid /\ row_version = work[t].row_version
          /\ work[t].at = "launch promotion"
  <2>1. work[t] \in LaunchPromotionWork
    BY WorkKinds DEF WorkflowTypeOK, LaunchPromotion
  <2>2. QED BY <2>1 DEF LaunchPromotionWork
<1>1. /\ Promoting(t, pid) /\ PromotionHeld(t, pid)
      /\ Token("promotion", pid) \notin DOMAIN results
      /\ UNCHANGED promotions
  <2>1. Promoting(t, pid)
    BY <1>0 DEF Promoting
  <2>2. PromotionHeld(t, pid)
    BY <2>1 DEF PromotionLaunches
  <2>3. UNCHANGED promotions
    BY DEF LaunchPromotion, store_vars, promotion_vars
  <2>4. QED BY <1>0, <2>1, <2>2, <2>3 DEF PromotionHeld
<1>2. PICK run, status, actor :
          /\ \/ /\ status = "EXECUTING"
                /\ run = results'[Token("promotion", pid)]
                /\ DOMAIN results' = DOMAIN results \cup {Token("promotion", pid)}
                /\ \A other \in DOMAIN results : results'[other] = results[other]
             \/ status = "FAILED" /\ UNCHANGED results
          /\ work' = [work EXCEPT ![t] = [at |-> "record promotion", pid |-> pid,
                          actor |-> actor, row_version |-> row_version,
                          status |-> status, run |-> run]]
  <2>1. CASE \E run \in JobRunIds :
               /\ Launch(Token("promotion", pid), run)
               /\ Continue(t, [at |-> "record promotion", pid |-> pid,
                               actor |-> work[t].actor, row_version |-> row_version,
                               status |-> "EXECUTING", run |-> run])
    <3>1. PICK run \in JobRunIds :
              /\ Launch(Token("promotion", pid), run)
              /\ Continue(t, [at |-> "record promotion", pid |-> pid,
                              actor |-> work[t].actor, row_version |-> row_version,
                              status |-> "EXECUTING", run |-> run])
      BY <2>1
    <3>2. /\ DOMAIN results' = DOMAIN results \cup {Token("promotion", pid)}
          /\ results'[Token("promotion", pid)] = run
          /\ \A other \in DOMAIN results : results'[other] = results[other]
      BY <3>1, LaunchAdds
    <3>3. QED BY <3>1, <3>2 DEF Continue
  <2>2. CASE /\ Continue(t, [at |-> "record promotion", pid |-> pid,
                             actor |-> work[t].actor, row_version |-> row_version,
                             status |-> "FAILED", run |-> None])
             /\ UNCHANGED results
    BY <2>2 DEF Continue
  <2>3. QED BY <1>0, <2>1, <2>2 DEF LaunchPromotion
<1>3. /\ work'[t].at = "record promotion" /\ work'[t].pid = pid /\ work'[t].run = run
      /\ work'[t].status = status /\ work'[t].row_version = row_version
      /\ \A u \in Threads \ {t} : work'[u] = work[u]
  BY <1>2 DEF WorkflowTypeOK
<1>4. \A u \in Threads, p \in PromotionIds : Promoting(u, p)' <=> Promoting(u, p)
  BY <1>0, <1>1, <1>3 DEF Promoting
<1>5. \A p : p # pid =>
          /\ Token("promotion", p) \in DOMAIN results'
                 <=> Token("promotion", p) \in DOMAIN results
          /\ Token("promotion", p) \in DOMAIN results =>
                 results'[Token("promotion", p)] = results[Token("promotion", p)]
  <2>1. \A p : p # pid => Token("promotion", p) # Token("promotion", pid)
    BY TokensDiffer
  <2>2. CASE UNCHANGED results
    BY <2>2
  <2>3. CASE /\ DOMAIN results' = DOMAIN results \cup {Token("promotion", pid)}
             /\ \A other \in DOMAIN results : results'[other] = results[other]
    BY <2>1, <2>3
  <2>4. QED BY <1>2, <2>2, <2>3
<1>6. ASSUME NEW u \in Threads, NEW p \in PromotionIds, Promoting(u, p)'
      PROVE  PromotionHeld(u, p)'
  <2>1. Promoting(u, p) /\ PromotionHeld(u, p)
    BY <1>4, <1>6 DEF PromotionLaunches
  <2>2. \A x \in Threads : Promoting(x, p)' => x = u
    BY <1>4, <2>1 DEF PromotionHeld
  <2>3. CASE u = t
    <3>1. p = pid
      BY <1>0, <2>1, <2>3 DEF Promoting
    <3>2. QED BY <1>0, <1>1, <1>2, <1>3, <2>2, <2>3, <3>1 DEF PromotionHeld
  <2>4. CASE u # t
    <3>1. p # pid
      BY <1>1, <2>1, <2>4 DEF PromotionHeld
    <3>2. QED BY <1>1, <1>3, <1>5, <2>1, <2>2, <2>4, <3>1 DEF PromotionHeld
  <2>5. QED BY <2>3, <2>4
<1>7. \A p \in DOMAIN promotions : PromotionRunKnown(p)'
  <2>1. PromotionRunKnown(pid)'
    BY <1>1 DEF PromotionHeld, PromotionRunKnown
  <2>2. QED BY <1>1, <1>5, <2>1 DEF PromotionLaunches, PromotionRunKnown
<1>8. \A p \in PromotionIds : Token("promotion", p) \in DOMAIN results' =>
          p \in DOMAIN promotions /\ promotions[p].status \in {"APPROVED", "EXECUTING"}
  BY <1>1, <1>5 DEF PromotionLaunches, PromotionHeld
<1>9. \A p \in PromotionIds : PromotionWaits(p)' =>
          Failures \/ \E u \in Threads : Promoting(u, p)'
  BY <1>1, <1>4 DEF PromotionLaunches, PromotionWaits
<1>10. QED BY <1>1, <1>6, <1>7, <1>8, <1>9 DEF PromotionLaunches

\* The update cannot be refused: nobody else touches what was approved. The
\* status tells whether there is a run.
LEMMA CallUpdatePromotionKept ==
    ASSUME WorkflowTypeOK, PromotionLaunches, NEW t \in Threads, CallUpdatePromotion(t)
    PROVE  PromotionLaunches'
<1>1. PICK pid \in PromotionIds, status \in {"EXECUTING", "FAILED"},
           run \in JobRunIds \cup {None}, row_version \in RowVersions,
           actor \in Principals :
           /\ work[t].at = "record promotion" /\ work[t].pid = pid
           /\ work[t].status = status /\ work[t].run = run
           /\ work[t].row_version = row_version /\ work[t].actor = actor
  <2>1. work[t] \in RecordPromotionWork
    BY WorkKinds DEF WorkflowTypeOK, CallUpdatePromotion
  <2>2. QED BY <2>1 DEF RecordPromotionWork, CallUpdatePromotion
<1>2. PromotionTypeOK
  BY TypeOKSplit DEF WorkflowTypeOK
<1>3. PromotionHeld(t, pid)
  BY <1>1 DEF PromotionLaunches, Promoting
<1>4. pid \in DOMAIN promotions
  BY <1>3 DEF PromotionHeld
<1>5. UpdatePromotion(pid, row_version, status, run, actor, actor)
  BY <1>1, <1>3 DEF CallUpdatePromotion, PromotionHeld, RowVersionMatches
<1>6. PICK new \in Promotion : /\ promotions' = Put(promotions, pid, new)
                               /\ new.status = status
                               /\ new.promotion_job_run_id = run
  <2>1. status \in PromotionStatus
    BY DEF PromotionStatus
  <2>2. \E new \in Promotion : /\ RecordPromotion(pid, promotions[pid].status, new, actor)
                               /\ new.status = status
                               /\ new.promotion_job_run_id = run
    BY <1>2, <1>5, <2>1, UpdatePromotionRecords
  <2>3. QED BY <2>2 DEF RecordPromotion
<1>7. /\ DOMAIN promotions' = DOMAIN promotions /\ promotions'[pid] = new
      /\ \A p \in DOMAIN promotions \ {pid} : promotions'[p] = promotions[p]
  BY <1>4, <1>6 DEF Put
<1>8. work'[t] = Idle /\ (\A u \in Threads \ {t} : work'[u] = work[u]) /\ UNCHANGED results
  BY DEF WorkflowTypeOK, CallUpdatePromotion, End, Continue
<1>9. \A u \in Threads, p \in PromotionIds :
          Promoting(u, p)' => /\ u # t /\ work'[u] = work[u]
                              /\ Promoting(u, p) /\ p # pid
  <2>1. Idle.at = "idle"
    BY DEF Idle
  <2>2. \A u \in Threads : Promoting(u, pid) => u = t
    BY <1>3 DEF PromotionHeld
  <2>3. QED BY <1>8, <2>1, <2>2 DEF Promoting
<1>10. ASSUME NEW u \in Threads, NEW p \in PromotionIds, Promoting(u, p)'
       PROVE  PromotionHeld(u, p)'
  <2>1. work'[u] = work[u] /\ PromotionHeld(u, p) /\ p # pid
    BY <1>9, <1>10 DEF PromotionLaunches
  <2>2. promotions'[p] = promotions[p] /\ p \in DOMAIN promotions'
    BY <1>7, <2>1 DEF PromotionHeld
  <2>3. \A x \in Threads : Promoting(x, p)' => x = u
    BY <1>9, <2>1 DEF PromotionHeld
  <2>4. QED BY <1>8, <2>1, <2>2, <2>3 DEF PromotionHeld
<1>11. /\ status = "EXECUTING" => /\ Token("promotion", pid) \in DOMAIN results
                                  /\ results[Token("promotion", pid)] = run
       /\ status # "EXECUTING" => Token("promotion", pid) \notin DOMAIN results
  BY <1>1, <1>3 DEF PromotionHeld
<1>12. \A p \in DOMAIN promotions' : PromotionRunKnown(p)'
  <2>1. PromotionRunKnown(pid)'
    BY <1>6, <1>7, <1>8, <1>11 DEF PromotionRunKnown
  <2>2. QED BY <1>7, <1>8, <2>1 DEF PromotionLaunches, PromotionRunKnown
<1>13. \A p \in PromotionIds : Token("promotion", p) \in DOMAIN results =>
          p \in DOMAIN promotions' /\ promotions'[p].status \in {"APPROVED", "EXECUTING"}
  BY <1>6, <1>7, <1>11 DEF PromotionLaunches
<1>14. ASSUME NEW p \in PromotionIds, PromotionWaits(p)'
       PROVE  Failures \/ \E u \in Threads : Promoting(u, p)'
  <2>1. p # pid
    BY <1>6, <1>7, <1>14 DEF PromotionWaits
  <2>2. PromotionWaits(p)
    BY <1>7, <1>14, <2>1 DEF PromotionWaits
  <2>3. \A u \in Threads : Promoting(u, p) => Promoting(u, p)'
    BY <1>1, <1>8, <2>1 DEF Promoting
  <2>4. QED BY <2>2, <2>3 DEF PromotionLaunches
<1>15. QED BY <1>8, <1>10, <1>12, <1>13, <1>14 DEF PromotionLaunches

-----------------------------------------------------------------------------
(* One lemma for each action *)

Launches == EvaluationLaunches /\ PromotionLaunches /\ EvidenceCarried

\* A launch of one workflow keeps the runs of the other.
LEMMA LaunchKeepsOther ==
    ASSUME NEW id, NEW run
    PROVE  /\ Launch(Token("evaluation", id), run) => RunsKept("promotion")
           /\ Launch(Token("promotion", id), run) => RunsKept("evaluation")
<1>1. ASSUME Launch(Token("evaluation", id), run)
      PROVE  RunsKept("promotion")
  <2>1. /\ DOMAIN results' = DOMAIN results \cup {Token("evaluation", id)}
        /\ \A other \in DOMAIN results : results'[other] = results[other]
    BY <1>1, LaunchAdds
  <2>2. QED BY <2>1, TokensDiffer DEF RunsKept
<1>2. ASSUME Launch(Token("promotion", id), run)
      PROVE  RunsKept("evaluation")
  <2>1. /\ DOMAIN results' = DOMAIN results \cup {Token("promotion", id)}
        /\ \A other \in DOMAIN results : results'[other] = results[other]
    BY <1>2, LaunchAdds
  <2>2. QED BY <2>1, TokensDiffer DEF RunsKept
<1>3. QED BY <1>1, <1>2

\* One handler's move is none into or out of steps that it does not take.
LEMMA MoveAside ==
    ASSUME NEW t \in Threads, NEW steps,
           \A u \in Threads \ {t} : work'[u] = work[u],
           work'[t].at \notin steps, Failures \/ work[t].at \notin steps
    PROVE  NoneMoves(steps)
<1>1. ASSUME NEW u \in Threads
      PROVE  \/ work'[u] = work[u]
             \/ /\ work'[u].at \notin steps
                /\ Failures \/ work[u].at \notin steps
  <2>1. CASE u = t
    BY <2>1
  <2>2. CASE u # t
    <3>1. work'[u] = work[u]
      BY <2>2
    <3>2. QED BY <3>1
  <2>3. QED BY <2>1, <2>2
<1>2. QED BY <1>1 DEF NoneMoves

\* A promotion that keeps the evidence of its request keeps what reviewers hold.
LEMMA EvidenceKept ==
    ASSUME EvidenceCarried, NEW pid, NEW new,
           promotions' = Put(promotions, pid, new),
           pid \in DOMAIN promotions
               => new.readiness_snapshot = promotions[pid].readiness_snapshot,
           SameEvidenceApproved(new),
           \A u \in Threads : work'[u] = work[u] \/ EvidenceHeld(u)'
    PROVE  EvidenceCarried'
<1>1. \A p \in DOMAIN promotions : /\ p \in DOMAIN promotions'
                                   /\ promotions'[p].readiness_snapshot
                                          = promotions[p].readiness_snapshot
  BY DEF Put
<1>2. \A p \in DOMAIN promotions' : SameEvidenceApproved(promotions'[p])
  BY DEF Put, EvidenceCarried
<1>3. ASSUME NEW u \in Threads PROVE EvidenceHeld(u)'
  BY <1>1 DEF EvidenceCarried, EvidenceHeld
<1>4. QED BY <1>2, <1>3 DEF EvidenceCarried

\* While promotions stay, so does what reviewers hold of them.
LEMMA EvidenceAside ==
    ASSUME EvidenceCarried, UNCHANGED promotions,
           \A u \in Threads : work'[u] = work[u] \/ EvidenceHeld(u)'
    PROVE  EvidenceCarried'
<1>1. ASSUME NEW u \in Threads PROVE EvidenceHeld(u)'
  BY DEF EvidenceCarried, EvidenceHeld
<1>2. QED BY <1>1 DEF EvidenceCarried

\* A handler that only moves, with what it may carry there.
LEMMA MoveKept ==
    ASSUME WorkflowInv, NEW t \in Threads,
           \A u \in Threads \ {t} : work'[u] = work[u],
           UNCHANGED store_vars, UNCHANGED results,
           work'[t].at \notin EvaluationSteps \cup PromotionSteps,
           Failures \/ work[t].at \notin EvaluationSteps \cup PromotionSteps,
           EvidenceHeld(t)'
    PROVE  Launches'
<1>1. UNCHANGED evaluations /\ UNCHANGED promotions
  BY DEF store_vars, evaluation_vars, promotion_vars
<1>2. NoneMoves(EvaluationSteps) /\ NoneMoves(PromotionSteps)
  BY MoveAside
<1>3. EvaluationsAside /\ PromotionsAside
  BY <1>1, <1>2 DEF EvaluationsAside, PromotionsAside, RunsKept
<1>4. EvidenceCarried'
  BY <1>1, EvidenceAside DEF WorkflowInv
<1>5. QED BY <1>3, <1>4, EvaluationsAsideKept, PromotionsAsideKept DEF WorkflowInv, Launches

\* A handler that ends carries nothing.
LEMMA EndKept ==
    ASSUME WorkflowInv, NEW t \in Threads, End(t), UNCHANGED store_vars, UNCHANGED results,
           Failures \/ work[t].at \notin EvaluationSteps \cup PromotionSteps
    PROVE  Launches'
<1>1. Idle.at = "idle"
  BY DEF Idle
<1>2. work'[t] = Idle /\ \A u \in Threads \ {t} : work'[u] = work[u]
  BY DEF WorkflowInv, WorkflowTypeOK, End, Continue
<1>3. EvidenceHeld(t)' /\ work'[t].at \notin EvaluationSteps \cup PromotionSteps
  BY <1>1, <1>2 DEF EvidenceHeld, EvaluationSteps, PromotionSteps
<1>4. QED BY <1>2, <1>3, MoveKept

\* A review starts with the request as it is stored.
LEMMA HandlerStartsKept ==
    ASSUME WorkflowInv, NEW t \in Threads, HandlerStarts(t)
    PROVE  Launches'
<1>1. work \in [Threads -> Work]
  BY DEF WorkflowInv, WorkflowTypeOK
<1>2. /\ work[t] = Idle /\ UNCHANGED store_vars /\ UNCHANGED results
      /\ \A u \in Threads \ {t} : work'[u] = work[u]
      /\ \/ work'[t].at \in {"create evaluation", "assess request"}
         \/ /\ work'[t].at = "check source" /\ work'[t].pid \in DOMAIN promotions
            /\ work'[t].current = promotions[work'[t].pid]
  <2>1. CASE \E app \in AppIds, env \in Environments : StartEvaluation(t, app, env)
    <3>1. PICK app \in AppIds, env \in Environments, vid \in DOMAIN versions :
              /\ Continue(t, [at |-> "create evaluation", app |-> app, env |-> env,
                              vid |-> vid])
              /\ work[t] = Idle /\ UNCHANGED store_vars /\ UNCHANGED results
      BY <2>1 DEF StartEvaluation, FlaggedCurrent
    <3>2. QED BY <1>1, <3>1 DEF Continue
  <2>2. CASE \E app \in AppIds, source \in Environments, target \in Environments,
                requester \in Principals : StartRequest(t, app, source, target, requester)
    <3>1. PICK app \in AppIds, source \in Environments, target \in Environments,
               requester \in Principals, vid \in DOMAIN versions :
              /\ Continue(t, [at |-> "assess request", app |-> app, source |-> source,
                              target |-> target, vid |-> vid, requester |-> requester])
              /\ work[t] = Idle /\ UNCHANGED store_vars /\ UNCHANGED results
      BY ZenonT(40), <2>2 DEF StartRequest, FlaggedCurrent
    <3>2. QED BY <1>1, <3>1 DEF Continue
  <2>3. CASE \E pid \in PromotionIds, actor \in Principals, expected \in RowVersions :
                StartApproval(t, pid, actor, expected)
    <3>1. PICK pid \in DOMAIN promotions, actor \in Principals, expected \in RowVersions :
              /\ Continue(t, [at |-> "check source", pid |-> pid, actor |-> actor,
                              expected |-> expected, current |-> promotions[pid]])
              /\ work[t] = Idle /\ UNCHANGED store_vars /\ UNCHANGED results
      BY <2>3 DEF StartApproval
    <3>2. QED BY <1>1, <3>1 DEF Continue
  <2>4. QED BY <2>1, <2>2, <2>3 DEF HandlerStarts
<1>3. UNCHANGED promotions
  BY <1>2 DEF store_vars, promotion_vars
<1>4. /\ work'[t].at \notin EvaluationSteps \cup PromotionSteps
      /\ work[t].at \notin EvaluationSteps \cup PromotionSteps
  <2>1. Idle.at = "idle"
    BY DEF Idle
  <2>2. QED BY <1>2, <2>1 DEF EvaluationSteps, PromotionSteps
<1>5. EvidenceHeld(t)'
  BY <1>2, <1>3 DEF EvidenceHeld
<1>6. QED BY <1>2, <1>4, <1>5, MoveKept

\* A request goes on with ready evidence only.
LEMMA AssessRequestKept ==
    ASSUME WorkflowInv, NEW t \in Threads, AssessRequest(t)
    PROVE  Launches'
<1>1. UNCHANGED store_vars /\ UNCHANGED results
      /\ work[t].at \notin EvaluationSteps \cup PromotionSteps
  BY DEF AssessRequest, EvaluationSteps, PromotionSteps
<1>2. CASE ~ SnapshotNow(work[t].vid).ready
  BY <1>1, <1>2, EndKept DEF AssessRequest
<1>3. CASE SnapshotNow(work[t].vid).ready
  <2>1. work \in [Threads -> Work]
    BY DEF WorkflowInv, WorkflowTypeOK
  <2>2. /\ work'[t].at = "create promotion"
        /\ work'[t].snapshot = SnapshotNow(work[t].vid)
        /\ \A u \in Threads \ {t} : work'[u] = work[u]
    <3>1. Continue(t, [at |-> "create promotion", app |-> work[t].app,
                       source |-> work[t].source, target |-> work[t].target,
                       vid |-> work[t].vid, requester |-> work[t].requester,
                       snapshot |-> SnapshotNow(work[t].vid)])
      BY <1>3 DEF AssessRequest
    <3>2. QED BY <2>1, <3>1 DEF Continue
  <2>3. SnapshotNow(work[t].vid).decision \in ReadyDecisions
    BY <1>3 DEF SnapshotNow
  <2>4. EvidenceHeld(t)' /\ work'[t].at \notin EvaluationSteps \cup PromotionSteps
    BY <2>2, <2>3 DEF EvidenceHeld, EvaluationSteps, PromotionSteps
  <2>5. QED BY <1>1, <2>2, <2>4, MoveKept
<1>4. QED BY <1>2, <1>3

\* A review goes on with the request it read, and approves on its evidence.
LEMMA ApprovalCheckKept ==
    ASSUME WorkflowInv, NEW t \in Threads,
           CheckSource(t) \/ AssessApproval(t) \/ AnswerResubmit(t)
    PROVE  Launches'
<1>1. /\ UNCHANGED store_vars /\ UNCHANGED results
      /\ work[t].at \in {"check source", "assess approval", "resubmit"}
      /\ work[t].at \notin EvaluationSteps \cup PromotionSteps
  BY DEF CheckSource, AssessApproval, AnswerResubmit, EvaluationSteps, PromotionSteps
<1>2. CASE End(t)
  BY <1>1, <1>2, EndKept
<1>3. CASE ~ End(t)
  <2>1. work \in [Threads -> Work]
    BY DEF WorkflowInv, WorkflowTypeOK
  <2>2. work[t] \in ReviewWork
    BY <1>1, <2>1, WorkKinds
  <2>3. \A w \in ReviewWork : \A at :
            /\ [w EXCEPT !.at = at].at = at
            /\ [w EXCEPT !.at = at].pid = w.pid
            /\ [w EXCEPT !.at = at].current = w.current
    BY DEF ReviewWork
  <2>4. /\ work[t].pid \in DOMAIN promotions
        /\ work[t].current.readiness_snapshot
               = promotions[work[t].pid].readiness_snapshot
    BY <1>1 DEF WorkflowInv, EvidenceCarried, EvidenceHeld
  <2>5. /\ \A u \in Threads \ {t} : work'[u] = work[u]
        /\ work'[t].pid = work[t].pid
        /\ \/ /\ work'[t].at \in {"assess approval", "resubmit"}
              /\ work'[t].current = work[t].current
           \/ /\ work'[t].at = "approve"
              /\ work'[t].snapshot.decision
                     = work[t].current.readiness_snapshot.decision
    <3>1. CASE CheckSource(t)
      <4>1. Continue(t, [work[t] EXCEPT !.at = "assess approval"])
        BY <1>3, <3>1 DEF CheckSource
      <4>2. QED BY <2>1, <2>2, <2>3, <4>1 DEF Continue
    <3>2. CASE AssessApproval(t)
      <4>1. CASE Continue(t, [work[t] EXCEPT !.at = "resubmit"])
        BY <2>1, <2>2, <2>3, <4>1 DEF Continue
      <4>2. CASE /\ SameEvidence(work[t].current.readiness_snapshot,
                        SnapshotNow(work[t].current.application_version_id))
                 /\ Continue(t, [at |-> "approve", pid |-> work[t].pid,
                        actor |-> work[t].actor, expected |-> work[t].expected,
                        snapshot |->
                            SnapshotNow(work[t].current.application_version_id)])
        BY <2>1, <4>2 DEF Continue, SameEvidence
      <4>3. QED BY <1>3, <3>2, <4>1, <4>2 DEF AssessApproval
    <3>3. QED BY <1>3, <3>1, <3>2 DEF AnswerResubmit
  <2>6. UNCHANGED promotions
    BY <1>1 DEF store_vars, promotion_vars
  <2>7. EvidenceHeld(t)' /\ work'[t].at \notin EvaluationSteps \cup PromotionSteps
    BY <2>4, <2>5, <2>6 DEF EvidenceHeld, EvaluationSteps, PromotionSteps
  <2>8. QED BY <1>1, <2>5, <2>7, MoveKept
<1>4. QED BY <1>2, <1>3

\* What is stored under review, or leaves it unapproved, by a handler that ends or
\* by no handler, keeps everything.
LEMMA PromotionReviewKept ==
    ASSUME WorkflowInv, NEW pid \in PromotionIds, NEW new \in Promotion,
           pid \in DOMAIN promotions =>
               /\ promotions[pid].status = "PENDING_REVIEW"
               /\ new.readiness_snapshot = promotions[pid].readiness_snapshot,
           promotions' = Put(promotions, pid, new),
           new.status \notin {"APPROVED", "EXECUTING"}, SameEvidenceApproved(new),
           UNCHANGED evaluations, UNCHANGED results,
           \/ UNCHANGED work
           \/ \E t \in Threads :
                  End(t) /\ work[t].at \notin EvaluationSteps \cup PromotionSteps
    PROVE  Launches'
<1>1. \A u \in Threads : \/ work'[u] = work[u]
                         \/ /\ work'[u] = Idle
                            /\ work[u].at \notin EvaluationSteps \cup PromotionSteps
  BY DEF WorkflowInv, WorkflowTypeOK, End, Continue
<1>2. Idle.at = "idle"
  BY DEF Idle
<1>3. NoneMoves(EvaluationSteps) /\ NoneMoves(PromotionSteps)
  BY <1>1, <1>2 DEF NoneMoves, EvaluationSteps, PromotionSteps
<1>4. EvaluationLaunches'
  <2>1. EvaluationsAside
    BY <1>3 DEF EvaluationsAside, RunsKept
  <2>2. QED BY <2>1, EvaluationsAsideKept DEF WorkflowInv
<1>5. PromotionLaunches'
  <2>1. /\ DOMAIN promotions' = DOMAIN promotions \cup {pid} /\ promotions'[pid] = new
        /\ \A p \in DOMAIN promotions \ {pid} : promotions'[p] = promotions[p]
    BY DEF Put
  <2>2. QED BY <1>3, <2>1, PromotionReviewedKept DEF WorkflowInv
<1>6. EvidenceCarried'
  <2>1. \A u \in Threads : work'[u] = work[u] \/ EvidenceHeld(u)'
    BY <1>1, <1>2 DEF EvidenceHeld
  <2>2. QED BY <2>1, EvidenceKept DEF WorkflowInv
<1>7. QED BY <1>4, <1>5, <1>6 DEF Launches

\* An accepted evaluation is held by its handler; a refused one changes nothing.
LEMMA CallCreateEvaluationKept ==
    ASSUME WorkflowInv, NEW t \in Threads, CallCreateEvaluation(t)
    PROVE  Launches'
<1>1. work[t].at = "create evaluation" /\ UNCHANGED results
  BY DEF CallCreateEvaluation
<1>2. CASE \E eid \in EvaluationIds, now \in Times :
              /\ CreateEvaluation(eid, work[t].app, work[t].env, work[t].vid, now)
              /\ Continue(t, [at |-> "launch evaluation", eid |-> eid])
  <2>1. PICK app \in AppIds, env \in Environments, vid \in VersionIds :
              app = work[t].app /\ env = work[t].env /\ vid = work[t].vid
    <3>1. work[t] \in CreateEvaluationWork
      BY <1>1, WorkKinds DEF WorkflowInv, WorkflowTypeOK
    <3>2. QED BY <3>1 DEF CreateEvaluationWork
  <2>2. PICK eid \in EvaluationIds, now \in Times :
              /\ CreateEvaluation(eid, app, env, vid, now)
              /\ work' = [work EXCEPT ![t] = [at |-> "launch evaluation", eid |-> eid]]
    BY <1>2, <2>1 DEF Continue
  <2>3. \E new \in Evaluation : /\ RecordEvaluation(eid, None, new)
                                /\ new.job_run_id = None /\ new.row_version = 1
    <3>1. CreateEvaluation(eid, app, env, vid, now)
      BY <2>2
    <3>2. QED BY <3>1, CreateEvaluationRecords
  <2>4. PICK new \in Evaluation : /\ evaluations' = Put(evaluations, eid, new)
                                  /\ new.job_run_id = None /\ new.row_version = 1
                                  /\ UNCHANGED promotions
    BY <2>3 DEF RecordEvaluation, promotion_vars
  <2>5. EvaluationLaunches'
    <3>1. eid \notin DOMAIN evaluations
      BY <2>2 DEF CreateEvaluation
    <3>2. Continue(t, [at |-> "launch evaluation", eid |-> eid])
      BY <2>2 DEF Continue
    <3>3. QED BY <1>1, <2>4, <3>1, <3>2, EvaluationCreatedKept DEF WorkflowInv
  <2>6. work'[t].at = "launch evaluation" /\ \A u \in Threads \ {t} : work'[u] = work[u]
    BY <2>2 DEF WorkflowInv, WorkflowTypeOK, Continue
  <2>7. PromotionLaunches'
    <3>1. NoneMoves(PromotionSteps)
      BY <1>1, <2>6, MoveAside DEF PromotionSteps
    <3>2. PromotionsAside
      BY <1>1, <2>4, <3>1 DEF PromotionsAside, RunsKept
    <3>3. QED BY <3>2, PromotionsAsideKept DEF WorkflowInv
  <2>8. EvidenceCarried'
    <3>1. EvidenceHeld(t)'
      BY <2>6 DEF EvidenceHeld
    <3>2. QED BY <2>4, <2>6, <3>1, EvidenceAside DEF WorkflowInv
  <2>9. QED BY <2>5, <2>7, <2>8 DEF Launches
<1>3. CASE End(t) /\ UNCHANGED store_vars
  <2>1. work[t].at \notin EvaluationSteps \cup PromotionSteps
    BY <1>1 DEF EvaluationSteps, PromotionSteps
  <2>2. QED BY <1>1, <1>3, <2>1, EndKept
<1>4. QED BY <1>2, <1>3 DEF CallCreateEvaluation

\* The launch of an evaluation does not concern promotions.
LEMMA LaunchEvaluationKeepsAll ==
    ASSUME WorkflowInv, NEW t \in Threads, LaunchEvaluation(t)
    PROVE  Launches'
<1>1. work \in [Threads -> Work]
  BY DEF WorkflowInv, WorkflowTypeOK
<1>2. /\ work[t].at = "launch evaluation" /\ work'[t].at = "record evaluation"
      /\ \A u \in Threads \ {t} : work'[u] = work[u]
  <2>1. work[t].at = "launch evaluation"
    BY DEF LaunchEvaluation
  <2>2. CASE \E run \in JobRunIds :
               work' = [work EXCEPT ![t] =
                   [at |-> "record evaluation", eid |-> work[t].eid,
                    status |-> "QUEUED", run |-> run]]
    <3>1. PICK run \in JobRunIds :
               work' = [work EXCEPT ![t] =
                   [at |-> "record evaluation", eid |-> work[t].eid,
                    status |-> "QUEUED", run |-> run]]
      BY <2>2
    <3>2. QED BY <1>1, <2>1, <3>1
  <2>3. CASE work' = [work EXCEPT ![t] =
                 [at |-> "record evaluation", eid |-> work[t].eid,
                  status |-> "FAILED", run |-> None]]
    BY <1>1, <2>1, <2>3
  <2>4. QED BY <2>2, <2>3 DEF LaunchEvaluation, Continue
<1>3. RunsKept("promotion")
  <2>1. CASE UNCHANGED results
    BY <2>1 DEF RunsKept
  <2>2. QED BY <2>1, LaunchKeepsOther DEF LaunchEvaluation
<1>4. UNCHANGED promotions
  BY DEF LaunchEvaluation, store_vars, promotion_vars
<1>5. PromotionLaunches'
  <2>1. NoneMoves(PromotionSteps)
    BY <1>2, MoveAside DEF PromotionSteps
  <2>2. QED BY <1>3, <1>4, <2>1, PromotionsAsideKept DEF WorkflowInv, PromotionsAside
<1>6. EvidenceCarried'
  <2>1. EvidenceHeld(t)'
    BY <1>2 DEF EvidenceHeld
  <2>2. QED BY <1>2, <1>4, <2>1, EvidenceAside DEF WorkflowInv
<1>7. QED BY <1>5, <1>6, LaunchEvaluationKept DEF WorkflowInv, Launches

\* The record of an evaluation's launch does not concern promotions.
LEMMA CallUpdateEvaluationKeepsAll ==
    ASSUME WorkflowInv, NEW t \in Threads, CallUpdateEvaluation(t)
    PROVE  Launches'
<1>1. Idle.at = "idle" /\ work \in [Threads -> Work]
  BY DEF Idle, WorkflowInv, WorkflowTypeOK
<1>2. /\ work[t].at = "record evaluation" /\ work'[t].at = "idle" /\ UNCHANGED results
      /\ \A u \in Threads \ {t} : work'[u] = work[u]
  BY <1>1 DEF CallUpdateEvaluation, End, Continue
<1>3. UNCHANGED promotions
  BY DEF CallUpdateEvaluation, UpdateEvaluation, RecordEvaluation, store_vars, promotion_vars
<1>4. PromotionLaunches'
  <2>1. NoneMoves(PromotionSteps)
    BY <1>2, MoveAside DEF PromotionSteps
  <2>2. PromotionsAside
    BY <1>2, <1>3, <2>1 DEF PromotionsAside, RunsKept
  <2>3. QED BY <2>2, PromotionsAsideKept DEF WorkflowInv
<1>5. EvidenceCarried'
  <2>1. EvidenceHeld(t)'
    BY <1>2 DEF EvidenceHeld
  <2>2. QED BY <1>2, <1>3, <2>1, EvidenceAside DEF WorkflowInv
<1>6. QED BY <1>4, <1>5, CallUpdateEvaluationKept DEF WorkflowInv, Launches

\* A request is stored on the ready evidence its handler assessed.
LEMMA CallCreatePromotionKept ==
    ASSUME WorkflowInv, NEW t \in Threads, CallCreatePromotion(t)
    PROVE  Launches'
<1>1. /\ work[t].at = "create promotion" /\ End(t) /\ UNCHANGED results
      /\ work[t].at \notin EvaluationSteps \cup PromotionSteps
  BY DEF CallCreatePromotion, EvaluationSteps, PromotionSteps
<1>2. PICK snapshot \in Snapshot, app \in AppIds, source \in Environments,
           target \in Environments, vid \in VersionIds, requester \in Principals :
          /\ snapshot = work[t].snapshot /\ app = work[t].app /\ source = work[t].source
          /\ target = work[t].target /\ vid = work[t].vid
          /\ requester = work[t].requester
  <2>1. work[t] \in CreatePromotionWork
    BY <1>1, WorkKinds DEF WorkflowInv, WorkflowTypeOK
  <2>2. QED BY <2>1 DEF CreatePromotionWork
<1>3. snapshot.decision \in ReadyDecisions
  BY <1>1, <1>2 DEF WorkflowInv, EvidenceCarried, EvidenceHeld
<1>4. CASE \E pid \in PromotionIds :
              CreatePromotionRequest(pid, app, source, target, vid, requester, snapshot)
  <2>1. PICK pid \in PromotionIds :
            CreatePromotionRequest(pid, app, source, target, vid, requester, snapshot)
    BY <1>4
  <2>2. pid \notin DOMAIN promotions
    BY <2>1 DEF CreatePromotionRequest
  <2>3. \E new \in Promotion : /\ RecordPromotion(pid, None, new, requester)
                               /\ new.status = "PENDING_REVIEW"
                               /\ new.readiness_snapshot = snapshot
                               /\ new.approval_readiness_snapshot = None
    BY <2>1, CreatePromotionRecords
  <2>4. PICK new \in Promotion : /\ promotions' = Put(promotions, pid, new)
                                 /\ new.status = "PENDING_REVIEW"
                                 /\ new.readiness_snapshot = snapshot
                                 /\ new.approval_readiness_snapshot = None
                                 /\ UNCHANGED evaluations
    BY <2>3 DEF RecordPromotion, evaluation_vars
  <2>5. SameEvidenceApproved(new)
    BY <1>3, <2>4 DEF SameEvidenceApproved
  <2>6. QED BY <1>1, <2>2, <2>4, <2>5, PromotionReviewKept
<1>5. CASE UNCHANGED store_vars
  BY <1>1, <1>5, EndKept
<1>6. QED BY <1>2, <1>4, <1>5 DEF CallCreatePromotion

\* An approval stores the evidence its handler compared with the request's.
LEMMA CallApprovePromotionKept ==
    ASSUME WorkflowInv, NEW t \in Threads, CallApprovePromotion(t)
    PROVE  Launches'
<1>1. /\ work[t].at = "approve" /\ UNCHANGED results
      /\ work[t].at \notin EvaluationSteps \cup PromotionSteps
  BY DEF CallApprovePromotion, EvaluationSteps, PromotionSteps
<1>2. PICK pid \in PromotionIds, actor \in Principals, expected \in RowVersions,
           snapshot \in Snapshot :
          /\ pid = work[t].pid /\ actor = work[t].actor /\ expected = work[t].expected
          /\ snapshot = work[t].snapshot
  <2>1. work[t] \in ApproveWork
    BY <1>1, WorkKinds DEF WorkflowInv, WorkflowTypeOK
  <2>2. QED BY <2>1 DEF ApproveWork
<1>3. PromotionTypeOK /\ work \in [Threads -> Work]
  BY TypeOKSplit DEF WorkflowInv, WorkflowTypeOK
<1>4. pid \in DOMAIN promotions
      /\ snapshot.decision = promotions[pid].readiness_snapshot.decision
  BY <1>1, <1>2 DEF WorkflowInv, EvidenceCarried, EvidenceHeld
<1>5. CASE /\ ApprovePromotion(pid, actor, expected, snapshot)
           /\ Continue(t, [at |-> "launch promotion", pid |-> pid, actor |-> actor,
                           row_version |-> expected + 1])
  <2>1. /\ promotions[pid].status = "PENDING_REVIEW"
        /\ \E new \in Promotion :
               /\ RecordPromotion(pid, "PENDING_REVIEW", new, actor)
               /\ SameRequest(promotions[pid], new)
               /\ new.status = "APPROVED"
               /\ new.approval_readiness_snapshot
                      = ApprovalEvidence(promotions[pid], snapshot)
    <3>1. ApprovePromotion(pid, actor, expected, snapshot)
      BY <1>5
    <3>2. snapshot \in Snapshot \cup {None}
      OBVIOUS
    <3>3. QED BY <1>3, <3>1, <3>2, ApprovePromotionRecords
  <2>2. PICK new \in Promotion :
               /\ promotions' = Put(promotions, pid, new)
               /\ SameRequest(promotions[pid], new)
               /\ new.status = "APPROVED"
               /\ new.approval_readiness_snapshot
                      = ApprovalEvidence(promotions[pid], snapshot)
               /\ UNCHANGED evaluations
    BY <2>1 DEF RecordPromotion, evaluation_vars
  <2>3. /\ work'[t].at = "launch promotion" /\ work'[t].pid = pid
        /\ work'[t].row_version = expected + 1
        /\ \A u \in Threads \ {t} : work'[u] = work[u]
    BY <1>3, <1>5 DEF Continue
  <2>4. EvaluationLaunches'
    <3>1. NoneMoves(EvaluationSteps)
      BY <1>1, <2>3, MoveAside DEF EvaluationSteps
    <3>2. EvaluationsAside
      BY <1>1, <2>2, <3>1 DEF EvaluationsAside, RunsKept
    <3>3. QED BY <3>2, EvaluationsAsideKept DEF WorkflowInv
  <2>5. PromotionLaunches'
    <3>1. /\ DOMAIN promotions' = DOMAIN promotions /\ promotions'[pid] = new
          /\ \A p \in DOMAIN promotions \ {pid} : promotions'[p] = promotions[p]
      BY <1>4, <2>2 DEF Put
    <3>2. promotions[pid].row_version = expected
      BY <1>5 DEF ApprovePromotion, Reviewable, RowVersionMatches
    <3>3. promotions'[pid].row_version = expected + 1
      BY <2>2, <3>1, <3>2 DEF SameRequest
    <3>4. QED BY <1>1, <1>4, <2>1, <2>2, <2>3, <3>1, <3>3, PromotionApprovedKept
              DEF WorkflowInv
  <2>6. EvidenceCarried'
    <3>1. SameEvidenceApproved(new)
      BY <1>4, <2>2 DEF WorkflowInv, EvidenceCarried, SameEvidenceApproved, SameRequest,
                        ApprovalEvidence
    <3>2. EvidenceHeld(t)'
      BY <2>3 DEF EvidenceHeld
    <3>3. new.readiness_snapshot = promotions[pid].readiness_snapshot
      BY <2>2 DEF SameRequest
    <3>4. QED BY <2>2, <2>3, <3>1, <3>2, <3>3, EvidenceKept DEF WorkflowInv
  <2>7. QED BY <2>4, <2>5, <2>6 DEF Launches
<1>6. CASE End(t) /\ UNCHANGED store_vars
  BY <1>1, <1>6, EndKept
<1>7. QED BY <1>2, <1>5, <1>6 DEF CallApprovePromotion

\* The launch of a promotion does not concern evaluations or evidence.
LEMMA LaunchPromotionKeepsAll ==
    ASSUME WorkflowInv, NEW t \in Threads, LaunchPromotion(t)
    PROVE  Launches'
<1>1. work \in [Threads -> Work]
  BY DEF WorkflowInv, WorkflowTypeOK
<1>2. /\ work[t].at = "launch promotion" /\ work'[t].at = "record promotion"
      /\ \A u \in Threads \ {t} : work'[u] = work[u]
  <2>1. work[t].at = "launch promotion"
    BY DEF LaunchPromotion
  <2>2. CASE \E run \in JobRunIds :
               work' = [work EXCEPT ![t] =
                   [at |-> "record promotion", pid |-> work[t].pid,
                    actor |-> work[t].actor, row_version |-> work[t].row_version,
                    status |-> "EXECUTING", run |-> run]]
    <3>1. PICK run \in JobRunIds :
               work' = [work EXCEPT ![t] =
                   [at |-> "record promotion", pid |-> work[t].pid,
                    actor |-> work[t].actor, row_version |-> work[t].row_version,
                    status |-> "EXECUTING", run |-> run]]
      BY <2>2
    <3>2. QED BY <1>1, <2>1, <3>1
  <2>3. CASE work' = [work EXCEPT ![t] =
                   [at |-> "record promotion", pid |-> work[t].pid,
                    actor |-> work[t].actor, row_version |-> work[t].row_version,
                    status |-> "FAILED", run |-> None]]
    BY <1>1, <2>1, <2>3
  <2>4. QED BY <2>2, <2>3 DEF LaunchPromotion, Continue
<1>3. RunsKept("evaluation")
  <2>1. CASE UNCHANGED results
    BY <2>1 DEF RunsKept
  <2>2. QED BY <2>1, LaunchKeepsOther DEF LaunchPromotion
<1>4. UNCHANGED evaluations /\ UNCHANGED promotions
  BY DEF LaunchPromotion, store_vars, evaluation_vars, promotion_vars
<1>5. EvaluationLaunches'
  <2>1. NoneMoves(EvaluationSteps)
    BY <1>2, MoveAside DEF EvaluationSteps
  <2>2. QED BY <1>3, <1>4, <2>1, EvaluationsAsideKept DEF WorkflowInv, EvaluationsAside
<1>6. EvidenceCarried'
  <2>1. EvidenceHeld(t)'
    BY <1>2 DEF EvidenceHeld
  <2>2. QED BY <1>2, <1>4, <2>1, EvidenceAside DEF WorkflowInv
<1>7. QED BY <1>5, <1>6, LaunchPromotionKept DEF WorkflowInv, Launches

\* The record of a promotion's launch keeps its evidence.
LEMMA CallUpdatePromotionKeepsAll ==
    ASSUME WorkflowInv, NEW t \in Threads, CallUpdatePromotion(t)
    PROVE  Launches'
<1>1. Idle.at = "idle" /\ work \in [Threads -> Work] /\ PromotionTypeOK
  BY TypeOKSplit DEF Idle, WorkflowInv, WorkflowTypeOK
<1>2. /\ work[t].at = "record promotion" /\ work'[t].at = "idle" /\ UNCHANGED results
      /\ \A u \in Threads \ {t} : work'[u] = work[u]
  BY <1>1 DEF CallUpdatePromotion, End, Continue
<1>3. EvidenceHeld(t)'
  BY <1>2 DEF EvidenceHeld
<1>4. EvaluationLaunches'
  <2>1. NoneMoves(EvaluationSteps)
    BY <1>2, MoveAside DEF EvaluationSteps
  <2>2. UNCHANGED evaluations
    BY DEF CallUpdatePromotion, UpdatePromotion, RecordPromotion, store_vars, evaluation_vars
  <2>3. EvaluationsAside
    BY <1>2, <2>1, <2>2 DEF EvaluationsAside, RunsKept
  <2>4. QED BY <2>3, EvaluationsAsideKept DEF WorkflowInv
<1>5. EvidenceCarried'
  <2>1. CASE UNCHANGED store_vars
    <3>1. UNCHANGED promotions
      BY <2>1 DEF store_vars, promotion_vars
    <3>2. QED BY <1>2, <1>3, <3>1, EvidenceAside DEF WorkflowInv
  <2>2. CASE UpdatePromotion(work[t].pid, work[t].row_version, work[t].status,
                             work[t].run, work[t].actor, work[t].actor)
    <3>1. PICK pid \in PromotionIds, status \in PromotionStatus,
               run \in JobRunIds \cup {None}, row_version \in RowVersions,
               actor \in Principals :
                   UpdatePromotion(pid, row_version, status, run, actor, actor)
      <4>1. work[t] \in RecordPromotionWork
        BY <1>1, <1>2, WorkKinds
      <4>2. /\ work[t].pid \in PromotionIds /\ work[t].status \in PromotionStatus
            /\ work[t].run \in JobRunIds \cup {None}
            /\ work[t].row_version \in RowVersions /\ work[t].actor \in Principals
        BY <4>1 DEF RecordPromotionWork, PromotionStatus
      <4>3. QED BY <2>2, <4>2
    <3>2. /\ pid \in DOMAIN promotions
          /\ \E new \in Promotion :
                 /\ RecordPromotion(pid, promotions[pid].status, new, actor)
                 /\ SameRequest(promotions[pid], new)
                 /\ new.approval_readiness_snapshot
                        = promotions[pid].approval_readiness_snapshot
      BY <1>1, <3>1, UpdatePromotionRecords
    <3>3. PICK new \in Promotion :
                 /\ promotions' = Put(promotions, pid, new)
                 /\ new.readiness_snapshot = promotions[pid].readiness_snapshot
                 /\ new.approval_readiness_snapshot
                        = promotions[pid].approval_readiness_snapshot
      BY <3>2 DEF RecordPromotion, SameRequest
    <3>4. SameEvidenceApproved(new)
      BY <3>2, <3>3 DEF WorkflowInv, EvidenceCarried, SameEvidenceApproved
    <3>5. QED BY <1>2, <1>3, <3>3, <3>4, EvidenceKept DEF WorkflowInv
  <2>3. QED BY <2>1, <2>2 DEF CallUpdatePromotion
<1>6. QED BY <1>4, <1>5, CallUpdatePromotionKept DEF WorkflowInv, Launches

\* A rejection or a request for changes needs no handler.
LEMMA ReviewKept ==
    ASSUME WorkflowInv, Review
    PROVE  Launches'
<1>1. PICK pid \in PromotionIds, actor \in Principals, expected \in RowVersions,
           status \in PromotionStatus : ReviewPromotion(pid, actor, expected, status)
  BY DEF Review, SomePromotionReviewed
<1>2. PromotionTypeOK
  BY TypeOKSplit DEF WorkflowInv, WorkflowTypeOK
<1>3. /\ pid \in DOMAIN promotions /\ promotions[pid].status = "PENDING_REVIEW"
      /\ status \notin {"APPROVED", "EXECUTING"}
      /\ \E new \in Promotion :
             /\ RecordPromotion(pid, "PENDING_REVIEW", new, actor)
             /\ SameRequest(promotions[pid], new)
             /\ new.status = status
             /\ new.approval_readiness_snapshot
                    = promotions[pid].approval_readiness_snapshot
  BY <1>1, <1>2, ReviewPromotionRecords
<1>4. PICK new \in Promotion :
             /\ promotions' = Put(promotions, pid, new)
             /\ new.readiness_snapshot = promotions[pid].readiness_snapshot
             /\ new.status = status
             /\ new.approval_readiness_snapshot
                    = promotions[pid].approval_readiness_snapshot
             /\ UNCHANGED evaluations
  BY <1>3 DEF RecordPromotion, SameRequest, evaluation_vars
<1>5. SameEvidenceApproved(new)
  BY <1>3, <1>4 DEF WorkflowInv, EvidenceCarried, SameEvidenceApproved
<1>6. UNCHANGED work /\ UNCHANGED results
  BY DEF Review
<1>7. QED BY <1>3, <1>4, <1>5, <1>6, PromotionReviewKept

\* The reconciler does not concern promotions.
LEMMA ReconcileKeepsAll ==
    ASSUME WorkflowInv, NEW eid \in EvaluationIds, NEW status \in EvaluationStatus,
           Reconcile(eid, status)
    PROVE  Launches'
<1>1. UNCHANGED work /\ UNCHANGED results /\ UNCHANGED promotions
  BY DEF Reconcile, UpdateEvaluation, RecordEvaluation, promotion_vars
<1>2. PromotionsAside
  BY <1>1 DEF PromotionsAside, RunsKept, NoneMoves
<1>3. EvidenceCarried'
  BY <1>1, EvidenceAside DEF WorkflowInv
<1>4. QED BY <1>2, <1>3, ReconcileKept, PromotionsAsideKept DEF WorkflowInv, Launches

\* Registrations and evidence concern neither handlers nor what they launch.
LEMMA NothingKept ==
    ASSUME WorkflowInv, UNCHANGED evaluations, UNCHANGED promotions,
           UNCHANGED work, UNCHANGED results
    PROVE  Launches'
<1>1. EvaluationsAside /\ PromotionsAside
  BY DEF EvaluationsAside, PromotionsAside, RunsKept, NoneMoves
<1>2. EvidenceCarried'
  BY EvidenceAside DEF WorkflowInv
<1>3. QED BY <1>1, <1>2, EvaluationsAsideKept, PromotionsAsideKept DEF WorkflowInv, Launches

-----------------------------------------------------------------------------
(* The properties *)

\* The empty system launches nothing.
LEMMA InitLaunches == WorkflowInit => WorkflowInv
<1> SUFFICES ASSUME WorkflowInit PROVE WorkflowInv
  OBVIOUS
<1>1. /\ DOMAIN evaluations = {} /\ DOMAIN promotions = {} /\ DOMAIN results = {}
      /\ \A t \in Threads : work[t].at = "idle"
  BY DEF WorkflowInit, Init, EmptyDict, Idle
<1>2. EvaluationLaunches
  BY <1>1 DEF EvaluationLaunches, Launching, EvaluationWaits
<1>3. PromotionLaunches
  BY <1>1 DEF PromotionLaunches, Promoting, PromotionWaits
<1>4. EvidenceCarried
  BY <1>1 DEF EvidenceCarried, EvidenceHeld
<1>5. QED BY <1>2, <1>3, <1>4, InitWorkflow DEF WorkflowInv

\* Every step keeps what handlers know of the store.
LEMMA NextLaunches == WorkflowInv /\ [WorkflowNext]_workflow_vars => WorkflowInv'
<1> SUFFICES ASSUME WorkflowInv, [WorkflowNext]_workflow_vars PROVE Launches'
  BY NextWorkflow DEF WorkflowInv, Launches
<1>1. CASE \E t \in Threads : HandlerStarts(t)
  BY <1>1, HandlerStartsKept
<1>2. CASE \E t \in Threads : HandlerSteps(t)
  BY <1>2, CallCreateEvaluationKept, LaunchEvaluationKeepsAll,
     CallUpdateEvaluationKeepsAll, AssessRequestKept, CallCreatePromotionKept,
     ApprovalCheckKept, CallApprovePromotionKept, LaunchPromotionKeepsAll,
     CallUpdatePromotionKeepsAll DEF HandlerSteps
<1>3. CASE \E t \in Threads : StoreFails(t)
  BY <1>3, EndKept DEF StoreFails
<1>4. CASE Register
  BY <1>4, NothingKept
     DEF Register, SomeRegistration, RegisterApplication, evaluation_vars, promotion_vars
<1>5. CASE Review
  BY <1>5, ReviewKept
<1>6. CASE \E eid \in EvaluationIds, status \in EvaluationStatus : Reconcile(eid, status)
  BY <1>6, ReconcileKeepsAll
<1>7. CASE \E vid \in VersionIds, decision \in Decisions : EvidenceChanges(vid, decision)
  BY <1>7, NothingKept DEF EvidenceChanges, store_vars, evaluation_vars, promotion_vars
<1>8. CASE UNCHANGED workflow_vars
  BY <1>8, NothingKept
     DEF workflow_vars, store_vars, evaluation_vars, promotion_vars
<1>9. QED
  BY <1>1, <1>2, <1>3, <1>4, <1>5, <1>6, <1>7, <1>8 DEF WorkflowNext

\* At every step of its code a handler holds what is still true of the store,
\* however many run at the same time and wherever they fail.
THEOREM WorkflowInvariant == WorkflowSpec => []WorkflowInv
BY InitLaunches, NextLaunches, PTL DEF WorkflowSpec

\* A job is launched once for each evaluation created and promotion approved.
THEOREM JobsLaunchedOnce == WorkflowSpec => []LaunchedOnce
<1>1. WorkflowInv => LaunchedOnce
  BY DEF WorkflowInv, EvaluationLaunches, EvaluationHeld, PromotionLaunches, PromotionHeld,
         LaunchedOnce
<1>2. QED BY <1>1, WorkflowInvariant, PTL

\* Recorded runs are the ones launched, and no promotion's job has run without an
\* approval that stands, even if the store failed between the two.
THEOREM RunsAlwaysAccountedFor == WorkflowSpec => []RunsAccountedFor
<1>1. WorkflowInv => RunsAccountedFor
  BY DEF WorkflowInv, EvaluationLaunches, EvaluationRunKnown, PromotionLaunches,
         PromotionRunKnown, RunsAccountedFor
<1>2. QED BY <1>1, WorkflowInvariant, PTL

\* Approvals stand on the ready evidence the request was made on, although it
\* may change between any two calls.
THEOREM ApprovalsOnSameEvidence == WorkflowSpec => []ApprovedOnSameEvidence
<1>1. WorkflowInv => ApprovedOnSameEvidence
  BY DEF WorkflowInv, EvidenceCarried, SameEvidenceApproved, ApprovedOnSameEvidence
<1>2. QED BY <1>1, WorkflowInvariant, PTL

\* While the store answers, a handler is responsible for whatever waits.
THEOREM NothingEverStranded == WorkflowSpec => []NothingStranded
<1>1. WorkflowInv => NothingStranded
  BY DEF WorkflowInv, EvaluationLaunches, PromotionLaunches, NothingStranded
<1>2. QED BY <1>1, WorkflowInvariant, PTL

=============================================================================
