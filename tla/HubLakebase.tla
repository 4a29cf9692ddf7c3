---------------------------- MODULE HubLakebase ----------------------------
(***************************************************************************)
(* LakebaseHubRepository: the Hub's store as PostgreSQL transactions.      *)
(*                                                                         *)
(* A thread of an App instance runs one operation as one transaction, and  *)
(* a transaction is a series of statements.  Isolation is READ COMMITTED:  *)
(* a statement reads what is committed when it runs, what a transaction    *)
(* writes is seen by the others at its commit, and the locks it takes      *)
(* (advisory, row, unique index entry, foreign key) are held until it      *)
(* ends.  The variables are the committed tables and the open transactions.*)
(* A write that waits for nobody and is read by nobody is part of the      *)
(* commit.  Every commit must be one operation of HubRepository.           *)
(*                                                                         *)
(* A check that fails (the exception rolls back), an idempotent replay, a  *)
(* lock_timeout, a unique violation and a lost connection all end in the   *)
(* same way, as Abort: nothing is written and every lock is released.      *)
(***************************************************************************)
EXTENDS Naturals, Sequences, FiniteSets

CONSTANTS
    AppIds, Environments, Evidence, GitRepositories, VersionIds,
    EvaluationIds, PromotionIds, JobRunIds, Summaries, Decisions, Principals,
    Administrators, Casefold, Times, MaxRowVersion, None,
    Instances,   \* App processes on the same schema
    Threads,     \* request threads, each with a pooled connection
    InstanceOf,  \* Threads -> Instances
    Release,     \* Instances -> number of MIGRATIONS its release knows
    Requests     \* calls the threads make: see Request

VARIABLES
    applications, versions, evaluations, promotions,  \* committed rows by key
    application_events, evaluation_events, promotion_events, \* action_events
    applied,   \* committed versions in hub_schema_migrations
    instance,  \* Instances -> "starting", "serving" or "refused"
    txn        \* Threads -> the open transaction, or Idle

registry == <<applications, versions, application_events>>
tables == <<registry, evaluations, evaluation_events, promotions, promotion_events>>
vars == <<tables, applied, instance, txn>>

-----------------------------------------------------------------------------
(* The abstract store: what Python keeps in two more dictionaries is a      *)
(* unique index here.                                                       *)

EvidenceOf(v) == <<v.application_id, v.environment, v.evidence>>
PointerOf(v) == <<v.application_id, v.environment>>

Current == {v \in DOMAIN versions : versions[v].is_current}

\* uq_hub_application_version_evidence and uq_hub_current_application_version
EvidenceIndex ==
    [k \in {EvidenceOf(versions[v]) : v \in DOMAIN versions} |->
        CHOOSE v \in DOMAIN versions : EvidenceOf(versions[v]) = k]
CurrentIndex ==
    [k \in {PointerOf(versions[v]) : v \in Current} |->
        CHOOSE v \in Current : PointerOf(versions[v]) = k]

Store == INSTANCE HubRepository WITH version_keys <- EvidenceIndex,
                                     current_versions <- CurrentIndex

-----------------------------------------------------------------------------
(* Requests and transactions *)

\* The rows an operation inserts: a version is made the current one; a workflow starts
\* at the beginning, or is refused before the transaction, and the service gives a new
\* one no job run and no result. PromotionRequestRecord relates a request to its snapshot.
NewVersion == {v \in Store!Version : v.is_current}
NewEvaluation ==
    {e \in Store!Evaluation :
        e.status = "REQUESTED" /\ e.row_version = 1 /\ e.job_run_id = None /\ e.summary = None}
NewPromotion ==
    {p \in Store!Promotion :
        /\ p.status = "PENDING_REVIEW" /\ p.row_version = 1
        /\ p.source_environment # p.target_environment
        /\ p.readiness_snapshot.ready
        /\ p.readiness_snapshot.application_version_id = p.application_version_id
        /\ {p.approval_readiness_snapshot, p.reviewed_by, p.promotion_job_run_id} = {None}}

\* Bound: no row is updated beyond MaxRowVersion.
Expected == 1 .. MaxRowVersion - 1

\* Fields an operation does not use are None.
Request ==
    [op : {"register"}, id : VersionIds, row : NewVersion]
    \cup [op : {"create_evaluation"}, id : EvaluationIds, row : NewEvaluation]
    \cup [op : {"create_promotion"}, id : PromotionIds, row : NewPromotion]
    \cup [op : {"update_evaluation"}, id : EvaluationIds, expected : Expected,
          status : Store!EvaluationStatus, run : JobRunIds \cup {None},
          summary : Summaries \cup {None}]
    \cup [op : {"approve_promotion"}, id : PromotionIds, expected : Expected,
          actor : Principals, snapshot : Store!Snapshot \cup {None}]
    \cup [op : {"review_promotion"}, id : PromotionIds, expected : Expected,
          actor : Principals, status : {"REJECTED", "CHANGES_REQUESTED"}]
    \cup [op : {"update_promotion"}, id : PromotionIds, expected : Expected,
          actor : Principals, status : Store!PromotionStatus,
          run : JobRunIds \cup {None}, reviewer : Principals \cup {None}]

Migrate == [op |-> "migrate"]

ASSUME InstanceOfAssumption == InstanceOf \in [Threads -> Instances]
ASSUME ReleaseAssumption == Release \in [Instances -> Nat \ {0}]
ASSUME RequestsAssumption == Requests \subseteq Request
ASSUME MaxRowVersionAssumption == MaxRowVersion \in Nat
ASSUME NoneAssumption == None \notin VersionIds /\ None \notin Store!Application

Creations == {"create_evaluation", "create_promotion"}
Updates == {"update_evaluation", "approve_promotion", "review_promotion", "update_promotion"}

\* The table an operation on an evaluation or a promotion works on.
RowsOf(r) ==
    IF r.op \in {"create_evaluation", "update_evaluation"} THEN evaluations ELSE promotions

StoredApplication(app) == IF app \in DOMAIN applications THEN applications[app] ELSE None

CurrentOf(v) == {w \in Current : PointerOf(versions[w]) = PointerOf(v)}

\* at is the position of the next statement; row and previous are what the
\* transaction has read so far and will use.
Idle == [at |-> 0, request |-> None, exclusive |-> {}, shared |-> {},
         row |-> None, previous |-> None]

\* Seeded fault: a registration locks the current version before the application.
VersionRowFirst(op) ==
    CASE op = "register" ->
            <<"locks", "replay", "identifier", "previous", "application",
              "write-application", "insert-version", "commit">>
      [] op \in Creations ->
            <<"locks", "identifier", "version", "duplicate", "insert-row",
              "check-application", "check-version", "commit">>
      [] op = "migrate" -> <<"locks", "applied", "create-tables", "commit">>
      [] OTHER -> <<"row", "update", "commit">>

\* The statements of each operation, as far as they read, wait or end it.
Statements(op) ==
    CASE op = "register" ->
            <<"locks", "replay", "identifier", "application",
              "write-application", "previous", "insert-version", "commit">>
      [] op \in Creations ->
            <<"locks", "identifier", "version", "duplicate", "insert-row",
              "check-application", "check-version", "commit">>
      [] op = "migrate" -> <<"locks", "applied", "create-tables", "commit">>
      [] OTHER -> <<"row", "update", "commit">>

At(t) == IF txn[t] = Idle THEN "idle" ELSE Statements(txn[t].request.op)[txn[t].at]

-----------------------------------------------------------------------------
(* What a transaction locks *)

Lock(kind, key) == [kind |-> kind, key |-> key]

ActiveEvaluationKey(e) == <<e.application_id, e.environment, e.application_version_id>>
ActivePromotionKey(p) == <<p.application_id, p.application_version_id, p.target_environment>>

RegistrationLocks(r) ==
    <<Lock("application-version", r.id), Lock("application", r.row.application_id)>>

\* Seeded fault: a creation locks its own identifier only.
IdentifierLockOnly(r) ==
    <<Lock(IF r.op = "create_evaluation" THEN "evaluation" ELSE "promotion", r.id)>>

CreationLocks(r) ==
    IF r.op = "create_evaluation"
    THEN <<Lock("evaluation-active", ActiveEvaluationKey(r.row)), Lock("evaluation", r.id)>>
    ELSE <<Lock("promotion-active", ActivePromotionKey(r.row)), Lock("promotion", r.id)>>

\* Seeded fault: migrate locks the schema of its own release.
MigrationUnlocked(t) == <<Lock("schema-migration", InstanceOf[t])>>

MigrationLocks(t) == <<Lock("schema-migration", None)>>

\* The advisory locks of t's operation, in the order _locks sorts their keys
\* ("application-version:" comes before "application:").
AdvisoryLocks(t) ==
    LET r == txn[t].request
    IN  CASE r.op = "register" -> RegistrationLocks(r)
          [] r.op \in Creations -> CreationLocks(r)
          [] r.op = "migrate" -> MigrationLocks(t)

\* The unique index entries of a row.
VersionEntries(id, v) ==
    {Lock("application_versions_pkey", id), Lock("uq_evidence", EvidenceOf(v))}
    \cup (IF v.is_current THEN {Lock("uq_current", PointerOf(v))} ELSE {})
EvaluationEntries(id, e) ==
    {Lock("evaluation_runs_pkey", id)}
    \cup (IF e.status \in {"REQUESTED", "QUEUED", "RUNNING"}
          THEN {Lock("uq_active_evaluation", ActiveEvaluationKey(e))} ELSE {})
PromotionEntries(id, p) ==
    {Lock("promotion_requests_pkey", id)}
    \cup (IF p.status \in {"PENDING_REVIEW", "CHANGES_REQUESTED", "APPROVED", "EXECUTING"}
          THEN {Lock("uq_active_promotion", ActivePromotionKey(p))} ELSE {})

\* The entries an INSERT (or CREATE TABLE) of t takes, if that is its next statement.
Inserted(t) ==
    LET r == txn[t].request
    IN  CASE At(t) = "write-application" /\ txn[t].row = None ->
                {Lock("applications_pkey", r.row.application_id)}
          [] At(t) = "insert-version" -> VersionEntries(r.id, r.row)
          [] At(t) = "insert-row" ->
                IF r.op = "create_evaluation" THEN EvaluationEntries(r.id, r.row)
                                              ELSE PromotionEntries(r.id, r.row)
          [] At(t) = "create-tables" ->
                {Lock("pg_class", n) : n \in (1 .. Release[InstanceOf[t]]) \ txn[t].row}
          [] OTHER -> {}

\* The entries of the committed rows, as t sees them: it has already cleared
\* is_current in the version it read as the current one.
Occupied(t) ==
    {Lock("applications_pkey", a) : a \in DOMAIN applications}
    \cup {Lock("pg_class", n) : n \in applied}
    \cup (UNION {VersionEntries(v, [versions[v] EXCEPT !.is_current = @ /\ v # txn[t].previous])
                    : v \in DOMAIN versions})
    \cup (UNION {EvaluationEntries(e, evaluations[e]) : e \in DOMAIN evaluations})
    \cup (UNION {PromotionEntries(p, promotions[p]) : p \in DOMAIN promotions})

\* Seeded fault: rows are read without FOR UPDATE.
NothingSelected(t) == {}

\* The rows a SELECT ... FOR UPDATE of t locks, if that is its next statement:
\* none when it finds none.
Selected(t) ==
    LET r == txn[t].request
    IN  CASE At(t) = "application" ->
                {Lock("application-row", a) : a \in {r.row.application_id} \cap DOMAIN applications}
          [] At(t) = "previous" ->
                {Lock("version-row", v) : v \in CurrentOf(r.row)}
          [] At(t) \in {"row", "update"} ->
                {Lock(IF r.op = "update_evaluation" THEN "evaluation-row" ELSE "promotion-row", i)
                    : i \in {r.id} \cap DOMAIN RowsOf(r)}
          [] OTHER -> {}

\* The row a foreign key check of t reads FOR KEY SHARE, if that is next.
Referenced(t) ==
    CASE At(t) = "check-application" ->
            {Lock("application-row", txn[t].request.row.application_id)}
      [] At(t) = "check-version" ->
            {Lock("version-row", txn[t].request.row.application_version_id)}
      [] OTHER -> {}

NextAdvisory(t) ==
    IF At(t) = "locks" THEN {AdvisoryLocks(t)[Cardinality(txn[t].exclusive) + 1]} ELSE {}

Exclusive(t) == NextAdvisory(t) \cup Selected(t) \cup Inserted(t)

\* t's next statement has to wait for u to end.
WaitsFor(t, u) ==
    /\ t # u
    /\ \/ (Exclusive(t) \cup Referenced(t)) \cap txn[u].exclusive # {}
       \/ Exclusive(t) \cap txn[u].shared # {}

\* A unique violation: what the INSERT would add is committed by now.
Collides(t) == Inserted(t) \cap Occupied(t) # {}

\* t's next statement goes through, with its locks, and leaves `read' behind.
Execute(t, read) ==
    /\ \A u \in Threads : ~WaitsFor(t, u)
    /\ ~Collides(t)
    /\ txn' = [txn EXCEPT ![t] = [read EXCEPT !.at = @ + 1,
                                              !.exclusive = @ \cup Exclusive(t),
                                              !.shared = @ \cup Referenced(t)]]
    /\ UNCHANGED <<tables, applied, instance>>

-----------------------------------------------------------------------------
(* Beginning and ending a transaction *)

Open(t, request) ==
    /\ txn[t] = Idle
    /\ txn' = [txn EXCEPT ![t] = [Idle EXCEPT !.at = 1, !.request = request]]
    /\ UNCHANGED <<tables, applied, instance>>

Begin(t) ==
    /\ instance[InstanceOf[t]] = "serving"
    /\ \E r \in Requests : Open(t, r)

\* The constructor of the repository migrates before anything is served.
BeginMigration(t) ==
    /\ instance[InstanceOf[t]] = "starting"
    /\ \A u \in Threads : InstanceOf[u] = InstanceOf[t] => txn[u] = Idle
    /\ Open(t, Migrate)

\* Only the last advisory lock leads to the next statement.
TakeAdvisoryLock(t) ==
    /\ At(t) = "locks"
    /\ \A u \in Threads : ~WaitsFor(t, u)
    /\ txn' = [txn EXCEPT ![t].exclusive = @ \cup NextAdvisory(t),
                          ![t].at =
            IF Cardinality(txn[t].exclusive) + 1 = Len(AdvisoryLocks(t)) THEN @ + 1 ELSE @]
    /\ UNCHANGED <<tables, applied, instance>>

Commit(t, op) ==
    /\ At(t) = "commit"
    /\ txn[t].request.op \in op
    /\ txn' = [txn EXCEPT ![t] = Idle]

\* The transaction rolls back: a check refuses, a registration is a replay, an
\* INSERT collides, lock_timeout or statement_timeout strikes, the connection is
\* lost, or the caller's request ends.
Abort(t) ==
    /\ txn[t] # Idle
    /\ txn' = [txn EXCEPT ![t] = Idle]
    /\ UNCHANGED <<tables, applied, instance>>

\* The App process stops and starts again: PostgreSQL rolls its transactions back.
Restart(i) ==
    /\ instance' = [instance EXCEPT ![i] = "starting"]
    /\ txn' = [t \in Threads |-> IF InstanceOf[t] = i THEN Idle ELSE txn[t]]
    /\ UNCHANGED <<tables, applied>>

-----------------------------------------------------------------------------
(* migrate *)

\* A schema newer than the release, or with a gap, is refused (Abort, Refuse).
SelectApplied(t) ==
    /\ At(t) = "applied"
    /\ applied \subseteq 1 .. Release[InstanceOf[t]]
    /\ Execute(t, [txn[t] EXCEPT !.row = applied])

RefuseSchema(t) ==
    /\ At(t) = "applied"
    /\ ~(applied \subseteq 1 .. Release[InstanceOf[t]])
    /\ txn' = [txn EXCEPT ![t] = Idle]
    /\ instance' = [instance EXCEPT ![InstanceOf[t]] = "refused"]
    /\ UNCHANGED <<tables, applied>>

CreateTables(t) == At(t) = "create-tables" /\ Execute(t, txn[t])

CommitMigration(t) ==
    /\ Commit(t, {"migrate"})
    /\ applied' = applied \cup 1 .. Release[InstanceOf[t]]
    /\ instance' = [instance EXCEPT ![InstanceOf[t]] = "serving"]
    /\ UNCHANGED tables

-----------------------------------------------------------------------------
(* register_application *)

\* The same evidence is a replay, answered from what is stored.
SelectReplay(t) ==
    /\ At(t) = "replay"
    /\ EvidenceOf(txn[t].request.row) \notin DOMAIN EvidenceIndex
    /\ Execute(t, txn[t])

\* SELECT 1 by primary key; of a registration and of a creation.
SelectIdentifier(t) ==
    /\ At(t) = "identifier"
    /\ txn[t].request.id \notin DOMAIN (IF txn[t].request.op = "register" THEN versions
                                        ELSE RowsOf(txn[t].request))
    /\ Execute(t, txn[t])

SelectApplication(t) ==
    /\ At(t) = "application"
    /\ Execute(t, [txn[t] EXCEPT
                      !.row = StoredApplication(txn[t].request.row.application_id)])

RepositoryAllowed(v) ==
    LET repositories == {versions[w].git_repository :
                            w \in {w \in DOMAIN versions :
                                       versions[w].application_id = v.application_id}}
    IN  repositories # {} => v.git_repository \in repositories

\* INSERT INTO applications, or the repository check and UPDATE applications.
WriteApplication(t) ==
    /\ At(t) = "write-application"
    /\ txn[t].row # None => RepositoryAllowed(txn[t].request.row)
    /\ Execute(t, txn[t])

SelectPrevious(t) ==
    LET found == CurrentOf(txn[t].request.row)
    IN  /\ At(t) = "previous"
        /\ Execute(t, [txn[t] EXCEPT !.previous = IF found = {} THEN None
                                                  ELSE CHOOSE w \in found : TRUE])

InsertVersion(t) == At(t) = "insert-version" /\ Execute(t, txn[t])

MergedApplication(stored, v) ==
    IF stored = None
    THEN [updated_at |-> v.registered_at, row_version |-> 1]
    ELSE [updated_at |-> Store!Later(stored.updated_at, v.registered_at),
          row_version |-> stored.row_version + 1]

CommitRegistration(t) ==
    LET v == txn[t].request.row
        vid == txn[t].request.id
        previous == txn[t].previous
        demoted == IF previous = None THEN versions
                   ELSE [versions EXCEPT ![previous].is_current = FALSE]
    IN  /\ Commit(t, {"register"})
        /\ applications' = Store!Put(applications, v.application_id,
                                     MergedApplication(txn[t].row, v))
        /\ versions' = Store!Put(demoted, vid, [v EXCEPT !.is_current = TRUE])
        /\ application_events' =
            [application_events EXCEPT ![v.application_id] =
                Append(@, [environment |-> v.environment,
                           previous_state |-> previous, new_state |-> vid])]
        /\ UNCHANGED <<evaluations, evaluation_events, promotions, promotion_events,
                       applied, instance>>

-----------------------------------------------------------------------------
(* create_evaluation and create_promotion_request *)

\* _validate_application_version: nothing deletes or changes what it reads.
ValidateVersion(t) ==
    LET row == txn[t].request.row
        environment == IF txn[t].request.op = "create_evaluation"
                       THEN row.environment ELSE row.source_environment
    IN  /\ At(t) = "version"
        /\ row.application_id \in DOMAIN applications
        /\ row.application_version_id \in DOMAIN versions
        /\ PointerOf(versions[row.application_version_id])
               = <<row.application_id, environment>>
        /\ Execute(t, txn[t])

SelectDuplicate(t) ==
    LET r == txn[t].request
    IN  /\ At(t) = "duplicate"
        /\ IF r.op = "create_evaluation"
           THEN Lock("uq_active_evaluation", ActiveEvaluationKey(r.row)) \notin Occupied(t)
           ELSE Lock("uq_active_promotion", ActivePromotionKey(r.row)) \notin Occupied(t)
        /\ Execute(t, txn[t])

InsertRow(t) == At(t) = "insert-row" /\ Execute(t, txn[t])

\* The foreign keys, in the order the table declares them.
CheckReferences(t) ==
    /\ At(t) \in {"check-application", "check-version"}
    /\ Execute(t, txn[t])

CommitEvaluationCreated(t) ==
    LET r == txn[t].request
    IN  /\ Commit(t, {"create_evaluation"})
        /\ evaluations' = Store!Put(evaluations, r.id, r.row)
        /\ evaluation_events' = [evaluation_events EXCEPT ![r.id] =
               Append(@, [previous_state |-> None, new_state |-> r.row.status])]
        /\ UNCHANGED <<registry, promotions, promotion_events, applied, instance>>

CommitPromotionCreated(t) ==
    LET r == txn[t].request
    IN  /\ Commit(t, {"create_promotion"})
        /\ promotions' = Store!Put(promotions, r.id, r.row)
        /\ promotion_events' = [promotion_events EXCEPT ![r.id] =
               Append(@, [previous_state |-> None, new_state |-> r.row.status,
                          actor_principal |-> r.row.requested_by])]
        /\ UNCHANGED <<registry, evaluations, evaluation_events, applied, instance>>

-----------------------------------------------------------------------------
(* update_evaluation, update_promotion and the reviews *)

\* Seeded fault: the transition table is not consulted while the run is active.
AnyOutcome(from, to) == from = to \/ from \in {"REQUESTED", "QUEUED", "RUNNING"}

\* _EVALUATION_TRANSITIONS, and the status may be written again.
EvaluationMove(from, to) ==
    \/ from = to
    \/ from = "REQUESTED" /\ to \in {"QUEUED", "RUNNING", "FAILED", "CANCELLED"}
    \/ from = "QUEUED" /\ to \in {"RUNNING", "FAILED", "CANCELLED"}
    \/ from = "RUNNING" /\ to \in {"SUCCEEDED", "FAILED", "CANCELLED"}

\* _PROMOTION_TRANSITIONS without the review decisions.
PromotionMove(from, to) ==
    \/ from = "PENDING_REVIEW" /\ to = "CANCELLED"
    \/ from = "CHANGES_REQUESTED" /\ to \in {"PENDING_REVIEW", "CANCELLED"}
    \/ from = "APPROVED" /\ to \in {"EXECUTING", "FAILED", "CANCELLED"}
    \/ from = "EXECUTING" /\ to \in {"SUCCEEDED", "FAILED"}

\* Without a revalidated snapshot the one of the request stands.
Readiness(r, current) ==
    IF r.snapshot = None THEN current.readiness_snapshot ELSE r.snapshot

\* What an operation demands of the row it has read.
Permitted(r, current) ==
    /\ current.row_version = r.expected
    /\ CASE r.op = "update_evaluation" -> EvaluationMove(current.status, r.status)
         [] r.op = "update_promotion" ->
                /\ PromotionMove(current.status, r.status)
                /\ r.status \in Store!NeedsApprovalEvidence
                       => current.approval_readiness_snapshot # None
         [] r.op = "review_promotion" ->
                r.actor \in Administrators /\ current.status = "PENDING_REVIEW"
         [] r.op = "approve_promotion" ->
                /\ r.actor \in Administrators
                /\ current.status = "PENDING_REVIEW"
                /\ Casefold[current.requested_by] # Casefold[r.actor]
                /\ Readiness(r, current).ready
                /\ Readiness(r, current).application_version_id
                       = current.application_version_id

\* _get_evaluation and _get_promotion, for update.
SelectRow(t) ==
    LET r == txn[t].request
    IN  /\ At(t) = "row"
        /\ r.id \in DOMAIN RowsOf(r)
        /\ Permitted(r, RowsOf(r)[r.id])
        /\ Execute(t, [txn[t] EXCEPT !.row = RowsOf(r)[r.id]])

\* UPDATE ... WHERE row_version = :expected_row_version hits one row.
UpdateRow(t) ==
    LET r == txn[t].request
    IN  /\ At(t) = "update"
        /\ RowsOf(r)[r.id].row_version = r.expected
        /\ Execute(t, txn[t])

CommitEvaluationUpdated(t) ==
    LET r == txn[t].request
    IN  /\ Commit(t, {"update_evaluation"})
        /\ evaluations' = [evaluations EXCEPT ![r.id] =
               [txn[t].row EXCEPT !.status = r.status, !.job_run_id = r.run,
                                  !.summary = r.summary, !.row_version = @ + 1]]
        /\ evaluation_events' = [evaluation_events EXCEPT ![r.id] =
               Append(@, [previous_state |-> txn[t].row.status, new_state |-> r.status])]
        /\ UNCHANGED <<registry, promotions, promotion_events, applied, instance>>

\* The row an update or a review of a promotion stores. An update writes the
\* reviewer columns of its caller's record.
UpdatedPromotion(r, current) ==
    CASE r.op = "approve_promotion" ->
            [current EXCEPT !.status = "APPROVED", !.reviewed_by = r.actor,
                            !.approval_readiness_snapshot = Readiness(r, current),
                            !.row_version = @ + 1]
      [] r.op = "review_promotion" ->
            [current EXCEPT !.status = r.status, !.reviewed_by = r.actor,
                            !.row_version = @ + 1]
      [] r.op = "update_promotion" ->
            [current EXCEPT !.status = r.status, !.promotion_job_run_id = r.run,
                            !.reviewed_by = r.reviewer, !.row_version = @ + 1]

CommitPromotionUpdated(t) ==
    LET r == txn[t].request
        updated == UpdatedPromotion(r, txn[t].row)
    IN  /\ Commit(t, {"approve_promotion", "review_promotion", "update_promotion"})
        /\ promotions' = [promotions EXCEPT ![r.id] = updated]
        /\ promotion_events' = [promotion_events EXCEPT ![r.id] =
               Append(@, [previous_state |-> txn[t].row.status,
                          new_state |-> updated.status, actor_principal |-> r.actor])]
        /\ UNCHANGED <<registry, evaluations, evaluation_events, applied, instance>>

-----------------------------------------------------------------------------
Init ==
    /\ applications = Store!EmptyDict
    /\ versions = Store!EmptyDict
    /\ evaluations = Store!EmptyDict
    /\ promotions = Store!EmptyDict
    /\ application_events = [a \in AppIds |-> << >>]
    /\ evaluation_events = [e \in EvaluationIds |-> << >>]
    /\ promotion_events = [p \in PromotionIds |-> << >>]
    /\ applied = {}
    /\ instance = [i \in Instances |-> "starting"]
    /\ txn = [t \in Threads |-> Idle]

Migration(t) ==
    \/ BeginMigration(t) \/ SelectApplied(t) \/ RefuseSchema(t)
    \/ CreateTables(t) \/ CommitMigration(t)

Registration(t) ==
    \/ SelectReplay(t) \/ SelectApplication(t) \/ WriteApplication(t)
    \/ SelectPrevious(t) \/ InsertVersion(t) \/ CommitRegistration(t)

Creation(t) ==
    \/ ValidateVersion(t) \/ SelectDuplicate(t) \/ InsertRow(t) \/ CheckReferences(t)
    \/ CommitEvaluationCreated(t) \/ CommitPromotionCreated(t)

Update(t) ==
    \/ SelectRow(t) \/ UpdateRow(t)
    \/ CommitEvaluationUpdated(t) \/ CommitPromotionUpdated(t)

Next ==
    \/ \E t \in Threads :
          \/ Begin(t) \/ TakeAdvisoryLock(t) \/ SelectIdentifier(t) \/ Abort(t)
          \/ Migration(t) \/ Registration(t) \/ Creation(t) \/ Update(t)
    \/ \E i \in Instances : Restart(i)

Spec == Init /\ [][Next]_vars

-----------------------------------------------------------------------------
(* Properties *)

\* The transactions implement the store the service is written against: each
\* commit is one HubRepository operation on what is committed at that moment,
\* whatever was read earlier, and nothing else is ever visible.
Implements == Store!Spec

\* No set of transactions waits for each other in a circle: the advisory locks
\* are sorted and every operation goes from the application row to the version row.
NoDeadlock ==
    \A S \in (SUBSET Threads) \ {{}} : \E t \in S : \A u \in S : ~WaitsFor(t, u)

\* The unique indexes are a backstop: the advisory locks decide first, so a loser
\* is told of the conflict (a replay, a duplicate, an identifier in use) and never
\* sees a unique violation reported as an unavailable store; nor does it wait for
\* another transaction's INSERT.
InsertsNeverCollide ==
    \A t \in Threads :
        /\ ~Collides(t)
        /\ \A u \in Threads \ {t} : Inserted(t) \cap txn[u].exclusive = {}

\* What a transaction has read FOR UPDATE is still what is committed when it
\* writes: no update is computed from a row, or demotes a version, that another
\* transaction has replaced meanwhile.
NothingStale ==
    \A t \in Threads :
        LET r == txn[t].request
            registered == At(t) = "commit" /\ r.op = "register"
            updated == At(t) = "commit" /\ r.op \in Updates
        IN  /\ (At(t) \in {"write-application", "previous", "insert-version"} \/ registered)
                   => txn[t].row = StoredApplication(r.row.application_id)
            /\ (At(t) = "insert-version" \/ registered)
                   => {txn[t].previous} \ {None} = CurrentOf(r.row)
            /\ (At(t) = "update" \/ updated)
                   => txn[t].row = RowsOf(r)[r.id]

\* At the moment an instance starts to serve, every migration of its release and
\* none of a newer one is committed, however many instances start or stop meanwhile;
\* and the migrations of the schema have no gap. (An instance that serves goes on
\* when a newer one migrates later: the code has no check after the start.)
ServesOwnSchema ==
    [][/\ applied' = 1 .. Cardinality(applied')
       /\ \A i \in Instances :
              (instance[i] # "serving" /\ instance'[i] = "serving")
                  => applied' = 1 .. Release[i]]_vars

=============================================================================
