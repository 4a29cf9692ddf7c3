# A TLA+ model of the Hub and the other stateful parts of aai-core

The repository holds an SDK (`aai_core`), a Databricks App console (`platform_app/aai_console`)
and the templates and examples built on them. Most of it is sequential or numeric. The parts that
several people, threads, processes or runs change at once, and make promises about, are few:

- the **AI Platform Hub** of the console: a registry of applications and their versions,
  evaluation runs, and promotions from one environment to another that a second person must
  approve; its service, its in-memory store and its PostgreSQL (Lakebase) store;
- the **governed batch inference** example, which spends money and writes a shared table;
- the **warehouse executor** of the analytics template, the **secret cache** and the **result
  attempts** of the SDK, and the **release publisher**.

This project models these seven. Paths are relative to the repository; `hub/` stands for
`src/platform_app/aai_console/hub/`.

## Inventory

| Component | Status | State it keeps | What is hard | What makes it correct |
|---|---|---|---|---|
| Hub store (`hub/repository.py`) | `HubRepository` | applications, immutable versions, an identity-key index, a current-version pointer per environment, evaluations, promotions, audit events; principals and bindings | stale writers, replays, two sources for "current", a second route to every status | `docs/ai-platform-hub.md` 112-123: idempotent registration, immutable evidence, compare-and-swap, one active workflow, append-only audit, four eyes |
| Hub service (`hub/service.py`), job runners (`hub/jobs.py`) | `HubWorkflow` | locals of requests in progress; token to result | several store calls and a launch per request, others between them, failures between them | jobs launched once and only for what was accepted; nothing accepted is stranded |
| Lakebase store (`hub/lakebase.py`) and its migrations | `HubLakebase` | the same in PostgreSQL | READ COMMITTED, advisory, row and index locks, concurrent migrations, old and new releases | it implements the store; no deadlock; a release starts to serve on its own schema only |
| Governed batch inference (`examples/governed-batch-inference`) | `BatchInference` | target table, run metadata, gate reports | overlapping, delayed and restarted runs, stale or edited evidence | every row traceable to governed evidence, spending bounded, no row older than it was |
| Warehouse executor (analytics template) | `WarehouseExecutor` | operations in progress, slots, pool | close during a submit or a poll, cancelled tasks, timeouts | the client is not used after it is closed, no statement is forgotten |
| Secrets (`aai_core/secrets.py`) | `SecretCache` | cache, loads in flight, client | single flight, expiry, close during a load | one load at a time, nothing kept or served after close, nobody waits for good |
| Result attempts (`aai_core/agentkit/results.py`) | `ResultsAttempt` | marker, pointer, state and results files | crashes between two files, locks | a gate reads the evidence of the newest attempt, or nothing |
| Release publishing (`scripts/publish_release.py`) | `PublishRelease` | files of a release volume | interrupted and resumed runs, late uploads, lost answers | a manifest stands only over the files of one build |
| Readiness (`hub/readiness.py`) | not modelled | none | unknown, missing and stale evidence | a blocking rule that did not pass blocks |
| Prompts and decisions (`aai_core/prompts.py`, `decisions.py`) | not modelled | remote registry versions and aliases | check then act on a remote registry | an alias moves only to what was adopted |
| Console, API models, gate, datasets, statistics, billing, providers, context, tracing, templates, fine-tuning, notebooks | not modelled | little or none | numeric edges | - |

**Interactions.** `server.py` calls one `HubService` method per request, on a thread of the server's
pool. The service calls the store (one atomic operation per call) and the job runner; nothing locks
across two calls. Nobody but the service writes to the store in this repository: the reconciler
of job runs that the documentation asks for does not exist yet, and the service refuses to launch
remote jobs until it does (`service.py:1082`). `HubWorkflow` extends `HubRepository`, and
`HubLakebase` implements it, so what the handlers rely on is what the database gives. The other
five components share no state with the Hub or each other. `PROJECT.json` lists every component
with its status and every hazard with its line.

## Modules

1. **`HubRepository`**: the contract of the store, one action per mutating operation. It is at the
   same time the abstract specification (what `HubRepository` promises its callers) and a faithful
   model of `InMemoryHubRepository`, whose methods hold one lock from start to end.
   - State: one variable per dict of the class. A dict is a function whose domain is the keys
     present. `version_keys` and `current_versions` are kept next to the `is_current` flags, since
     the code keeps both. Events are kept as one trail per entity, in the order of the appends.
   - An action is the call that goes through. Its guard is the conjunction of the code's refusals:
     an exception, or an idempotent answer, changes nothing and is a stuttering step.
   - Commit and manifest hash are one member of `Evidence`; a principal is a model value with
     `Casefold` for `str.casefold`; a readiness snapshot keeps its version, whether it is ready
     and the decision signature. `deployment_target`, comments, summaries' contents, and the
     timestamps that no status depends on are left out, with the validators that only constrain
     them.
   - `update_evaluation` and `update_promotion` store the whole record of their caller. The actions
     let callers set what the identity checks do not protect and a property could see: of an evaluation the status, job run and
     summary, of a promotion the status, the job run and the reviewer (`_assert_promotion_identity`,
     1251-1276, compares what was requested and both snapshots, not `reviewed_by`). So it is the
     trail that tells who approved, and `FourEyes` and `ApprovalBacked` are stated over it: the record may name
     somebody else once a caller has updated it. The handlers of the service copy the reviewer.
     Just as unprotected and left out, since no property tells their values apart: `reviewed_at` and
     `review_comment`, and of an evaluation `mlflow_run_id`, `started_at`, `completed_at`, `failure_message`.
   - `append_action_event` (`hub/repository.py:1098`) adds an event that changes no record. It is not
     modelled: nothing in the repository calls it, and a caller could add anything to a trail.
2. **`HubWorkflow`** extends it with the handlers of `HubService`, one action per store call or
   launch, and any number of threads. `work[t]` is the next call of thread t with the locals it
   needs. `readiness` is the decision `readiness_for_version` would reach now, and changes at any
   time, as the evidence behind it does (telemetry, evaluations, cost data); the several reads
   behind one decision are one read. `Launch` is `RecordingJobRunner.launch` plus the failure the
   handlers catch.
   - `StoreFails` ends a handler between any two calls: the store is unavailable, or did what it
     was asked to and lost the connection, or the request's thread is gone.
   - External: `Reconcile` (the reconciler or operator of the runbook, `docs/ai-platform-hub.md`
     318-327) and `EvidenceChanges`.
   - Left out: visibility and contributor roles (refusals before anything is read), the manifest's
     job identifiers, declared environments.
3. **`HubLakebase`**: an operation is a transaction, a transaction a series of `Statements(op)`,
   and `txn[t]` is where thread t stands with what it has read and locked. A statement reads what is
   committed when it runs; a row it inserts is seen by others at the commit.
   - Locks: advisory locks in the sorted order of the code, `FOR UPDATE` rows, the entries of
     unique and partial unique indexes (`Inserted`, `Occupied`), and the key-share lock a foreign
     key takes on the row it refers to (`Referenced`). All are held to the end.
   - `Abort` stands for every way in which a transaction ends without effect: a refused check, a
     replay, `lock_timeout`, a unique violation, a lost connection. `Restart` ends all transactions
     of an App instance, which then migrates again.
   - Two instances of different releases migrate and serve at the same time. `instance` is "refused"
     when the schema is newer than the release.
   - `Store == INSTANCE HubRepository WITH version_keys <- EvidenceIndex, current_versions <-
     CurrentIndex`: the two dictionaries that Python keeps are unique indexes here, a function of
     the rows. `Implements == Store!Spec`: each commit is one operation of the contract.
4. **`BatchInference`**: a job is the notebook from its gate to its last check. The gate is a set of
   operators (`MetricVerdict`, `FieldVerdict`, `Implied`, `Valid`, `Executable`, `Authorised`)
   over confidence intervals, which are numbers the configuration chooses; then every
   SQL statement is an atomic action (a Delta commit): reserve the run id, resynchronise
   labels and policy, infer and merge, read the history, finalise and confirm. A job may stop
   after any of them and be started again under the same run id (`Restart`). Predictions are determined
   by the inference identity and the text, so they are not modelled.
5. **`WarehouseExecutor`**: operations of threads (`_submit`) and of tasks (`_asubmit`), which hold a
   slot of the semaphore and send their calls to a pool of one more worker than there are slots.
   `queue` and `running` are the calls that wait for a worker and are in flight, and outlive
   the task that stopped waiting for them. `statement` is the other end, the warehouse.
   `CancelTask` may interrupt a task at any await, and its handler's own too; close runs through the
   stages of the code.
6. **`SecretCache`**: a step is one section under a lock or one call outside of them. The future of
   a load is set once and leaves `_inflight` with it, so its waiters are the calls waiting for the key.
   Entries expire at any time; `clear` and both levels of close happen at any time.
7. **`ResultsAttempt`**: begin, write, complete and the read of a gate, file by file. A file keeps
   whose attempt it names and which bytes it holds. `Fail` stops an evaluation between two steps:
   files stay, its `flock` does not. `latest` is a history variable: the last attempt whose begin
   changed the directory.
8. **`PublishRelease`**: publish with its resume, file by file, the manifest last. Faults: a run
   stops anywhere, an upload lands after its run is gone or changes bytes, an answer is lost,
   `ls` fails and so says "absent". The volume is external and does not overwrite.
9. **`MC...`**: the constants, bounds and symmetry of the runs.
10. **`HubRepositoryProofs`**, **`HubWorkflowProofs`**, **`HubLakebaseProofs`**, **`BatchInferenceProofs`**,
   **`WarehouseExecutorProofs`**, **`SecretCacheProofs`**, **`ResultsAttemptProofs`**, **`PublishReleaseProofs`**:
   the theorems.

Operators commented as a *seeded fault* are not part of any specification. Each is the mistaken
form of the definition that follows it, and replacing that definition by it makes TLC
find the named property violated (`mutants` in `PROJECT.json`).

## Runs

| Run | States | What it asks |
|---|---|---|
| `hub_store` | 85 059 | writers that hold any row version and status, clocks out of order: `CurrentVersionsAgree`, `EvidenceRegisteredOnce`, `RegistrationHistory`, `SupersededForGood`; `OneActiveEvaluation`, `EvaluationTrail`, `OutcomeFinal`; `OneActivePromotion`, `PromotionTrail`, `FourEyes`, `ApprovalBacked`, `ApprovalImmutable` |
| `workflow_safety` | 60 066 | two handlers, a reconciler, changing evidence, failures: `LaunchedOnce`, `RunsAccountedFor`, `ApprovedOnSameEvidence` |
| `workflow_live` | 389 355 | a store that answers, fair threads: `NothingStranded`, `EvaluationsLaunched`, `PromotionsLaunched` |
| `hub_lakebase` | 227 312 | competing calls on two instances of different releases: `Implements` (refinement of `HubRepository`), `NoDeadlock`, `InsertsNeverCollide` (the locks make unique violations unreachable), `NothingStale`, `ServesOwnSchema` |
| `batch_runs` | 1 397 969 | two jobs with one run id, stale and edited evidence, a restart: `Provenance`, `GovernedRows`, `SpendWithinCeiling`, `LandsOnce`, `NoRollback` |
| `executor` | 704 521 | a thread, tasks, cancellation, two calls of close: `NothingAfterClose`, `NoSilentOrphans`, `StatementsBounded`, `EverythingEnds` |
| `secret_cache` | 115 432 | three threads, two keys: `OneLoadAtATime`, `ClosedForGood`, `EveryoneAnswered` |
| `results_attempt` | 18 330 | three evaluations, two gates: `EvidenceIsNewest`, `FinishedIsReadable` |
| `publish_release` | 10 710 | three builds of a version: `MarkedIsWhole`, `PublishedStays`, `Resumed` |
| `approve_race` | violation | `ApprovedVersionIsCurrent`, see Findings |
| `resubmit` | violation | `NewRequestPossible`, see Findings |
| `batch_delayed` | violation | `NoRollback`, see Findings |

**Bounds.**

- `hub_store` explores three parts of one instance, since workflows meet in the registered
  versions only: four versions of two applications and environments under two clock values
  (one supersedes another in two places, registrations arrive out of order); or three
  evaluations of two versions of an environment (a duplicate, a retry after the end and a bystander);
  or two promotions. `MaxRowVersion` 4 lets an evaluation run its longest course and a promotion
  one round of changes before an approval. Only the first record goes beyond its first
  update: the others are there to be counted or refused. An update keeps or clears the reviewer, or
  names one who may not review; requests are ready for one reason, and the first may be approved for another. Identifiers are used in order.
- `workflow_safety`: two threads are the smallest race, the invariants being about pairs of
  handlers; row version 3 is all that the handlers of one record use. Two threads are both
  about evaluations or both about promotions, and promotions have one identifier: they
  meet in `NoActivePromotion` only, which `hub_store` checks. Three decisions (two ready, one
  blocked) are what the comparison of signatures tells apart.
- `hub_lakebase`: one thread in each instance and a fixed set of calls that compete for every identifier,
  evidence, active slot and row; `MaxRowVersion` 2 is one update, and two writers may hold the same version.
- `batch_runs`: three source versions (an edit with an arrival, a relabelling), three specs (one changes only
  judgment, one the prompt) and three jobs of which two share a run id; one restart, after any statement.
- `executor`: one slot and two tasks, so that one waits for the other, with a thread that takes none; two
  operations in a behaviour, one poll before a deadline, two callers of close.
- `secret_cache`: three threads, so that two wait for the third. `results_attempt`: three
  evaluations, so that one begins between the begin and the end of others. `publish_release`: four
  faults in all; two of the builds share a wheel and differ in the manifest.

Symmetry is used where no definition tells the members of a set apart, and never with liveness.
Deadlock is checked in `hub_lakebase`, `secret_cache`, `results_attempt` and `publish_release`. The
others say `CHECK_DEADLOCK FALSE`: identifiers, row versions and operations run out, and a store
that no one calls or a job that is done may rest.

**Fairness.** `FairWorkflowSpec`: a request that runs on a thread of the pool is not suspended for good
between two calls; nothing is assumed of people, registrations, the reconciler or evidence, and
`Failures = FALSE` (see *Stranded records*). Executor: the client's calls return or raise, workers and
the event loop are scheduled and deadlines pass; nobody has to call, cancel or close, and a
statement in the warehouse need not end. `SecretCache`: threads are scheduled and the client's calls
return or raise. `PublishRelease`: a run that is not stopped goes on (weak fairness), and
every build is tried again whenever it can be (strong fairness): an assumption about the people who run
the workflow, without which an interrupted release stays as it is.

## Findings

- **A superseded version can be approved** (`approve_race`). `approve_promotion` refuses a request
  whose source has "a newer current version" (`service.py:822-830`, `tests/test_hub_service.py:646`), but
  looks before it calls the store, and the store's compare-and-swap covers the promotion only. A
  registration between the two calls goes unnoticed, the old version is approved and its job is launched.
- **"Submit a new promotion request" is refused** (`resubmit`). When ready evidence has changed, the
  administrator is told so (`service.py:849`), while the request stays `PENDING_REVIEW`, which is
  active: a new request for that version and target gets `DuplicateActivePromotionError` until an
  administrator rejects the old one.
- **A delayed run can overwrite newer text** (`batch_delayed`). The docstring of `build_execute_sql`
  (`examples/governed-batch-inference/governed_batch_inference.py:2884-2894`) says that the
  source version keeps a delayed run of the same release from doing so "in both directions". A
  newer run that finds a row done, because that text was inferred before, leaves the row's
  source version as it was; a run of a version between the two then replaces the text.
  `batch_runs` has no text that comes back, and `NoRollback` holds there. A text that comes back is one of
  three ways: see `NothingTakenBack` under *Proofs*.

Observations, where the code does what it does without a statement to the contrary:

- *Release marker.* `publish_release.py` compares the manifest with what arrived after it was uploaded
  (181-185), while the manifest's presence is the completion marker (10-11, 165): bytes changed in that
  one upload leave a version marked although publish raised. `MarkedIsWhole` says what is left: the other files are
  right. And since any failure of `ls` counts as absence, it is the upload that does not overwrite which
  protects published files; the mutant of `PublishedStays` takes that away.
- *Batch inference.* A release that changes only judgment and a run of the release before it can meet
  between the check and the merge; `UPDATE SET *` then lowers `ai_strata_version`. A retry
  whose first attempt landed nothing may be refused by its final conflict check.
- *Executor.* The grace for cancelled tasks (10 s) is shorter than the wait of a submission (30 s): a task cancelled
  while it submits may leave its statement running. `NoSilentOrphans` counts it among the excused. Submissions that outlive their tasks can hold all workers, so that the spare one is not always there
  for a cancellation.
- *Secrets.* A value served after `clear` may have been loaded before it: a waiter is answered by the load it joined.
- *Result attempts.* In a directory with records from before the protocol only, a begin that fails at its first write leaves
  no trace, and a gate still answers from these records. Without `fcntl` there is no lock, and a
  gate that is given a results path does not take part in the protocol.
- *Readiness.* An approved exception for a new application passes `service_levels` also when
  the levels are known to be missed (`hub/readiness.py:587`).

**Stranded records.** The record is stored before the job is launched and nothing finishes the
work of a handler that is gone: after a failure an evaluation stays `REQUESTED` or a promotion
`APPROVED`, possibly with a job running, and being active it blocks the next one. The documentation
lists the missing reconciler as a prerequisite of remote execution, so this is a hazard and not a
disagreement; `LaunchedOnce` and `RunsAccountedFor` hold in spite of it.

## Proofs

TLAPS proves what follows for every value of the constants (any number of applications, records,
principals, threads, instances, releases, keys, tasks, jobs, builds, attempts and gates, any `Casefold`), from
the named `ASSUME`s of the modules alone: for the Hub that `Administrators` are principals, `Times` and
`MaxRowVersion` natural numbers, `None` not a snapshot, ready decisions decisions and `Failures` a Boolean; elsewhere that sets of keys
and tasks are finite, that marks such as `None` and `Corrupted` are not data, and that constants have the types
the code gives them. Two theorems about `BatchInference` have hypotheses about releases of their own.

*The Hub*

- `StoreTyped`: the type invariant of the store.
- `StoreInvariant`: the inductive invariant `StoreInv`. None of its parts is inductive by itself:
  every part needs `TypeOK`. The one-active-workflow parts need `WorkflowsBelong`, since the code
  compares application and environment as well as the version and the properties only the version.
  `FourEyes` and `ApprovalBacked` need the trail to start empty, which `PromotionTrail` says; `OutcomeFinal` needs
  the trail to end in the status of the record, which `EvaluationTrail` says. The argument first
  reduces all operations to five kinds of step (`KindsOfStep`: registered, created, moved) and has one lemma
  for each part of the invariant and kind of step that can disturb it.
- From it: `CurrentVersionsAlwaysAgree`, `EvidenceAlwaysRegisteredOnce`, `WorkflowsAlwaysBelong`,
  `AtMostOneActiveEvaluation`, `AtMostOneActivePromotion`, `EvaluationTrailsComplete`, `PromotionTrailsComplete`, `ApprovalsFourEyes`,
  `ApprovalsBacked`, `OutcomesFinal`, and the action properties `EvidenceImmutable` and `ApprovalsImmutable`.
  `ApprovalsBacked` and `ApprovalsImmutable` are about evidence; who approved is what `ApprovalsFourEyes` says of the trail.
- `HistoriesComplete`: `RegistrationHistory`, over `History`. The trail lists each version once under its environment
  (`Listed`, by the cardinality theorems of the library), the record counts them (`Accounted`), and events follow each
  other (`Succession`). A new event names the pointer it replaces; that this is the last event of the environment
  needs that a pointer implies an event, which comes from `CurrentVersionsAgree`.
- `WorkflowTyped`: the type of the handlers' locals and of the store. Each needs the other: an operation
  is called with locals read earlier, which must have the types the operation accepts, and the locals are read
  from a store that must be well typed. `WorkflowKeepsStore` carries `StoreInv` over, since handlers change
  the store through its operations only (the lemma `HandlersCallStore`, which holds by the way they are defined).

- `WorkflowInvariant`, over `WorkflowInv`: what a handler knows of the stored record at each step.
  `LaunchedOnce` rests on nobody having presented the token before (`EvaluationHeld`,
  `PromotionHeld`); for promotions that rests on the record being `APPROVED` between approval and
  recorded launch, and this on the row version the handler carries, which is why no other update
  goes through (`PromotionLaunches`). `ApprovedOnSameEvidence` needs the snapshot held between the
  check and the approval to be the request's (`EvidenceCarried`): a request's snapshot never
  changes. There is one lemma per action, and one per workflow for the actions that leave it
  alone (`EvaluationsAsideKept`, `PromotionsAsideKept`). From it: `JobsLaunchedOnce`,
  `RunsAlwaysAccountedFor`, `ApprovalsOnSameEvidence`, `NothingEverStranded`.

*The Lakebase store*

- `AlwaysLocked`, over `Locked`: the locks of open transactions never overlap, a transaction holds what its
  statement is behind, its inserted and updated rows are covered by its locks, and what it has read of the tables
  (by key, by index, or FOR UPDATE) is still so. Each needs the others: a read stays true because whoever would
  change it needs a lock that is held, and the locks to hold follow from what was read.
- `CommitsImplement`: `Spec => Implements`, the refinement of `HubRepository`. What `Locked` says at the commit of a
  transaction gives the guards of the abstract operation (a replay or an active record would be seen, the version
  belongs, the row version is the expected one), and its writes are the operation's; one lemma per operation.
- `NeverStale`, `InsertsGoThrough` and `OwnSchemaServed` are read off `Locked`. `NeverDeadlocked` orders statements
  by the locks they take (`Rank`): of any transactions that wait, one that has come furthest waits for none of the others.

*The other components*

- `SecretCacheProofs`: `CacheTyped`, `CacheLoadsOnce` and `CacheClosedForGood`. `TypeOK` with `OneLoadAtATime` is
  inductive; that a closed provider keeps no waiter needs it, since close wakes those who wait for a key in
  flight, and they must be all.
- `ResultsAttemptProofs`: `AttemptsTyped`, `GateSeesNewest`, `GateFindsFinished` over `Safe`: one writer and no
  reader beside it (`Locked`), which files of the latest attempt stand at each step of a begin (`Files`), results bound
  for good (`Bindings`), and that what a gate has read so far it would read again (`Read`). The last rests on
  the first, and `EvidenceIsNewest` on the last: a gate reads four files, each of which is replaced by itself.
- `BatchInferenceProofs`: `BatchTyped`, `RowsTraceable`, `RowsGoverned`, `SpendBounded` over `Backed`. A plan that
  passes the gate has a claim (its spec, its source version, who approved it). Every record of the run metadata makes
  the claim of an authorised plan and keeps it (`RunsBacked`), so what the run ids of a row say of it stays true;
  restarts and shared run ids do no harm because a job writes only after its record was found to agree (`JobsBacked`).
  `RowsNeverLowered`: the pair of release sequence and source version of a row never goes down (`OrderKept`).
  - `KeysLandOnce`: `LandsOnce`, where no two inferences share a release sequence (`ReleasesCounted`). The comment on
    `release_sequence` says that it is "incremented whenever any part of the release changes"
    (`governed_batch_inference.py:337-341`); the gate does not see other releases and cannot enforce it. Without it
    two releases of one sequence take a row from each other, and a restarted job pays again. With it, a job that has
    landed a key finds its row at or above its own record, at which it counts as done (`DoneAtOwn`).
  - `NothingTakenBack`: `NoRollback`, where also no two releases share an inference (`EveryReleaseInfers`) and a
    text that was edited does not come back (`TextsStayGone`); one unchanged spec, run nightly over edited
    documents, is the simplest case. TLC shows that each of the three is needed. Texts that come back are
    `batch_delayed`. A release that changes only judgment keeps the inference: its run on version 2 finds done what a
    slower run of the release before it landed from version 3, the row keeps the lower sequence, and its own delayed
    run on version 1 takes it back. `batch_runs` has such a release, but not three run ids for these three runs.
- `WarehouseExecutorProofs`: `AlwaysOrderly`, `ExecutorTyped`, `CloseIsQuiet`, `StatementsSettled`,
  `SlotsBoundStatements` over `Orderly`. An operation is submitted once (`SubmittedOnce`), the client is closed
  after the pool, and the pool after the last operation (`ClosedDown`), and the holders of slots are no more than the slots
  (`SlotsBounded`, by the cardinality theorems of the library).
- `PublishReleaseProofs`: `AlwaysOrdered`, `MarkedVersionsAreWhole`, `PublishedForGood` over `Ordered`. `RunKnows`: a run
  that is past a file has found its bytes in the volume, or had them read back after its upload; the wheel goes first
  and its digest is the checksum, so that files which agree with one build agree with no other half way. `LateKnows`:
  a manifest that may still land was sent when the other files of its build were in place. The volume does not
  overwrite, so what is there stays.

Proved but not checked by a run of their own: the type invariants, `WorkflowsBelong` (`WorkflowsAlwaysBelong`)
and `OrderKept` (`RowsNeverLowered`).

Only model-checked is all liveness, which is out of the prover's reach: `EvaluationsLaunched` and
`PromotionsLaunched`, `EverythingEnds`, `EveryoneAnswered` and `Resumed`; and, of constants that do not meet
their hypotheses, `LandsOnce` and `NoRollback`.

## Not modelled

- *Readiness rules and health calculation*: a pure function of evidence, most of which the service reports as unknown
  today. `HubWorkflow` takes its decisions as given and lets them change at any time.
- *Principals, resource bindings and visibility*: each is one dictionary written whole under the store's
  lock; visibility is a filter of reads.
- *The OAuth token of Lakebase and the retry of a connection*: a connection that fails is an `Abort`. *The checksum
  of a migration* tells edited releases apart, which nothing else does.
- *Prompt registry*: `ensure_version` and `promote` check and then act on a remote registry that has no
  compare-and-swap. Two callers may store the same prompt twice, or move an alias that another moved; the window
  is plain from the code, nothing in it closes it, and the repository promises nothing about it.
- *Power loss*: the results directory is modelled under crashes of processes, not of the machine.
- *`DatabricksJobRunner`*: refused by the service until there is a reconciler.
- *Statistics, datasets, the agentkit gate and runner, billing, estimation*: sequential and numeric.
- *Console routes, identity headers, manifests, providers, context, tracing*: stateless or thin wrappers.
- *Templates, fine-tuning, notebooks*: generated once or teaching material.

## Plan

What is modelled is done as planned. Worth adding when the code grows: the reconciler, as soon as it
exists, in place of the external `Reconcile` (with it `NothingStranded` should hold under failures); readiness
composed with the evidence in the store, once the service reads that evidence. Every invariant and every
safety property of a step that the passing runs check has its theorem.
