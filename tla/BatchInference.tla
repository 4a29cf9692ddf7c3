--------------------------- MODULE BatchInference ---------------------------
(***************************************************************************)
(* The governed batch inference example: the gate that authorises a paid   *)
(* run, and the SQL statements by which overlapping, delayed and restarted *)
(* runs write one target table and one run metadata table.                 *)
(*                                                                         *)
(* A job is the notebook between its gate and its last check.  Each        *)
(* statement is atomic (a Delta commit) and the job may stop after any of  *)
(* them and be started again under the same run id.  Inference is one      *)
(* MERGE (build_execute_sql); the notebook's simulated path collects the   *)
(* pending rows and merges them in two statements.  Predictions are not    *)
(* modelled: what the endpoint returns for a row is determined by the      *)
(* inference identity and the text.                                        *)
(***************************************************************************)
EXTENDS Naturals, FiniteSets

CONSTANTS
    Keys,        \* values of the key column
    Versions,    \* Delta versions of the source table
    Source,      \* Versions -> Keys -> the row [text, label], or None
    Specs,       \* spec digests
    Declared,    \* Specs -> what the spec declares: see Declaration
    Texts, Inferences, \* digests of what determines the model's output
    Fields, Strata, Weighted, Approvers,
    Plans,       \* [spec, report, estimate, preflight] a job may be started with
    Jobs, RunIds,
    RunIdOf,     \* Jobs -> RunIds
    Simulated,   \* the jobs that run without an endpoint (SIMULATED)
    MaxRestarts, \* bound: restarts of all jobs together
    None

VARIABLES
    target,        \* Keys -> landed row, or None
    table_version, \* Delta version of the target table
    runs,          \* RunIds -> row of the run metadata table, or None
    last_commit,   \* RunIds -> newest target version with that userMetadata, 0 if none
    job,           \* Jobs -> where the notebook stands
    restarts,
    landings,      \* Jobs -> Keys -> how often the job landed the key
    completed      \* history: <<spec, version>> of every MERGE that was run

table == <<target, table_version, last_commit>>
history == <<landings, completed>>
vars == <<table, runs, job, restarts, history>>

-----------------------------------------------------------------------------
(* Evidence *)

GateDecision == {"adopt", "reject", "inconclusive", "pending_approval"}

Policy == [criticality : {"high", "medium", "low"}, required : 0 .. 100]

Declaration ==
    [release_sequence : Nat, inference : Inferences, use_tier : 1 .. 3,
     policy : [Fields -> Policy], ceiling : Nat]

\* An interval is [lower, upper, flawless] in hundredths, or None; flawless is
\* the lower bound that a sample of that size without an error would have.
\* The scores of a sample are [spec, population, groups]: the spec they measure,
\* the size of each sampled stratum, and by field, group (stratum or Weighted)
\* and metric an interval.  A report is [spec, use_tier, policy, scores,
\* decision, snapshot, approved_by], an estimate [spec, snapshot, row_count,
\* ceiling], in rows, and a preflight [snapshot, row_count, population].

\* What the warehouse counts in a snapshot.
Rows(v) == {k \in Keys : Source[v][k] # None}
Preflight(v) ==
    [snapshot |-> v, row_count |-> Cardinality(Rows(v)),
     population |-> [s \in {Source[v][k].label : k \in Rows(v)} |->
                        Cardinality({k \in Rows(v) : Source[v][k].label = s})]]

\* A landed row, and a row of the run metadata table.
Row ==
    [text : Texts, label : Strata, run_id : RunIds, policy_run_id : RunIds,
     spec : Specs, release_sequence : Nat, inference : Inferences,
     source_version : Versions, strata_version : Versions]

Record ==
    [spec : Specs, source_table_version : Versions,
     gate_decision : GateDecision \cup {"not_required"},
     approved_by : Approvers \cup {None}, target_table_version : Nat \cup {None}]

ASSUME RestartsAssumption == MaxRestarts \in Nat
ASSUME KeysAssumption == IsFiniteSet(Keys)
ASSUME SourceAssumption ==
    \A v \in Versions, k \in Keys :
        Source[v][k] # None => Source[v][k].text \in Texts /\ Source[v][k].label \in Strata
ASSUME NoneAssumption ==
    None \notin Plans /\ None \notin Approvers /\ None \notin Row /\ None \notin Record
ASSUME VersionsAssumption == Versions \subseteq Nat
ASSUME DeclaredAssumption == Declared \in [Specs -> Declaration]
ASSUME RunIdAssumption == RunIdOf \in [Jobs -> RunIds]

\* The one thing a caller cannot make up: the warehouse's own counts.
ASSUME PlansAssumption ==
    \A p \in Plans :
        /\ DOMAIN p = {"spec", "report", "estimate", "preflight"}
        /\ p.spec \in Specs
        /\ p.preflight.snapshot \in Versions
        /\ p.preflight = Preflight(p.preflight.snapshot)
        /\ p.report # None =>
            /\ p.report.decision \in GateDecision
            /\ p.report.approved_by \in Approvers \cup {None}

-----------------------------------------------------------------------------
(* The gate *)

Combined(verdicts) ==
    IF "reject" \in verdicts THEN "reject"
    ELSE IF "inconclusive" \in verdicts THEN "inconclusive" ELSE "adopt"

MetricVerdict(interval, required) ==
    IF interval = None THEN "inconclusive"
    ELSE IF interval.lower >= required THEN "adopt"
    ELSE IF interval.upper >= required /\ interval.flawless < required
    THEN "inconclusive" ELSE "reject"

\* A high field is judged in every stratum, another on the weighted estimate.
Considered(scores, policy) ==
    IF policy.criticality = "high" THEN DOMAIN scores.population ELSE {Weighted}

FieldVerdict(scores, f, policy) ==
    Combined({MetricVerdict(scores.groups[f][g][m], policy.required)
                : g \in Considered(scores, policy), m \in {"precision", "recall"}})

\* The decision that the validators of a report derive from its scores.
Implied(r) ==
    LET verdict == Combined({FieldVerdict(r.scores, f, r.policy[f]) : f \in Fields})
    IN  IF verdict = "adopt" /\ r.use_tier = 1 /\ r.approved_by = None
        THEN "pending_approval" ELSE verdict

\* Every field has scores for every sampled stratum and for the whole.
MatchingEvidence(spec, scores) ==
    /\ scores.spec = spec
    /\ DOMAIN scores.population # {}
    /\ \A f \in Fields : DOMAIN scores.population \cup {Weighted} \subseteq DOMAIN scores.groups[f]

EvaluateGate(spec, scores, v) ==
    LET report(decision) ==
            [spec |-> spec, use_tier |-> Declared[spec].use_tier,
             policy |-> Declared[spec].policy, scores |-> scores,
             decision |-> decision, snapshot |-> v, approved_by |-> None]
    IN  report(Implied(report("reject")))

ApproveGate(r, approver) ==
    IF r.decision = "pending_approval"
    THEN [r EXCEPT !.decision = "adopt", !.approved_by = approver] ELSE r

\* Seeded fault: the decision of a report is believed.
Believed(r) == TRUE

\* The validators, run again: a report may have been edited or read back.
Valid(r) ==
    /\ r.use_tier # 3 => r.snapshot # None
    /\ r.use_tier # 1 => r.approved_by = None
    /\ r.decision = Implied(r)

MatchesSpec(spec, r) ==
    /\ r.spec = spec
    /\ r.use_tier = Declared[spec].use_tier
    /\ MatchingEvidence(spec, r.scores)
    /\ r.policy = Declared[spec].policy

\* A tier 1 report adopts only with an approver (Implied).
Executable(p) ==
    Declared[p.spec].use_tier # 3 =>
        /\ p.report # None
        /\ Valid(p.report)
        /\ MatchesSpec(p.spec, p.report)
        /\ p.report.scores.population = p.preflight.population
        /\ p.report.decision = "adopt"

SnapshotOf(p) == IF p.report # None THEN p.report.snapshot ELSE p.estimate.snapshot

\* Seeded fault: the rows the estimate priced are not compared with the run's.
AnyEstimate(p) ==
    /\ p.report # None => p.report.spec = p.spec
    /\ Executable(p)
    /\ SnapshotOf(p) # None
    /\ p.preflight.snapshot = SnapshotOf(p)
    /\ p.estimate.row_count <= Declared[p.spec].ceiling

Authorised(p) ==
    /\ p.report # None => p.report.spec = p.spec
    /\ Executable(p)
    /\ SnapshotOf(p) # None
    /\ p.estimate.spec = p.spec
    /\ p.estimate.ceiling = Declared[p.spec].ceiling
    /\ p.estimate.snapshot = SnapshotOf(p)
    /\ p.preflight.snapshot = SnapshotOf(p)
    /\ p.estimate.row_count = p.preflight.row_count
    /\ p.estimate.row_count <= p.estimate.ceiling

-----------------------------------------------------------------------------
(* What a job writes *)

SpecOf(j) == job[j].plan.spec
VersionOf(j) == SnapshotOf(job[j].plan)
SequenceOf(j) == Declared[SpecOf(j)].release_sequence
InferenceOf(j) == Declared[SpecOf(j)].inference
SourceRow(j, k) == Source[VersionOf(j)][k]
InSource(j) == Rows(VersionOf(j))

RunRecord(p) ==
    [spec |-> p.spec, source_table_version |-> SnapshotOf(p),
     gate_decision |-> IF p.report # None THEN p.report.decision ELSE "not_required",
     approved_by |-> IF p.report # None THEN p.report.approved_by ELSE None,
     target_table_version |-> None]

LandedRow(j, k) ==
    [text |-> SourceRow(j, k).text, label |-> SourceRow(j, k).label,
     run_id |-> RunIdOf[j], policy_run_id |-> RunIdOf[j],
     spec |-> SpecOf(j), release_sequence |-> SequenceOf(j),
     inference |-> InferenceOf(j), source_version |-> VersionOf(j),
     strata_version |-> VersionOf(j)]

\* A statement of j changed the rows `changed': Delta commits a new version.
Commits(j, changed) ==
    IF changed = {} THEN UNCHANGED <<table_version, last_commit>>
    ELSE /\ table_version' = table_version + 1
         /\ last_commit' = [last_commit EXCEPT ![RunIdOf[j]] = table_version + 1]

Idle == [stage |-> "idle", plan |-> None, pending |-> {}, version |-> 0]

GoesOn(j, stage) == job' = [job EXCEPT ![j].stage = stage]

Init ==
    /\ target = [k \in Keys |-> None]
    /\ table_version = 0
    /\ runs = [r \in RunIds |-> None]
    /\ last_commit = [r \in RunIds |-> 0]
    /\ job = [j \in Jobs |-> Idle]
    /\ restarts = 0
    /\ landings = [j \in Jobs |-> [k \in Keys |-> 0]]
    /\ completed = {}

-----------------------------------------------------------------------------
(* The statements of a job, in the notebook's order *)

\* MERGE INTO runs ... WHEN NOT MATCHED THEN INSERT: an existing record stays.
Reserve(j) ==
    /\ job[j].stage = "idle"
    /\ \E p \in Plans :
        /\ Authorised(p)
        /\ runs' = [runs EXCEPT ![RunIdOf[j]] = IF @ = None THEN RunRecord(p) ELSE @]
        /\ job' = [job EXCEPT ![j].stage = "check", ![j].plan = p]
    /\ UNCHANGED <<table, restarts, history>>

RunIdClash(j) ==
    \/ runs[RunIdOf[j]].spec # SpecOf(j)
    \/ runs[RunIdOf[j]].source_table_version # VersionOf(j)

CheckRunId(j) ==
    /\ job[j].stage = "check"
    /\ GoesOn(j, IF RunIdClash(j) THEN "refused" ELSE "strata")
    /\ UNCHANGED <<table, runs, restarts, history>>

StaleLabels(j) ==
    {k \in InSource(j) :
        /\ target[k] # None
        /\ target[k].strata_version <= VersionOf(j)
        /\ target[k].label # SourceRow(j, k).label}

ResyncStrata(j) ==
    /\ job[j].stage = "strata"
    /\ target' = [k \in Keys |->
            IF k \in StaleLabels(j)
            THEN [target[k] EXCEPT !.label = SourceRow(j, k).label,
                                   !.strata_version = VersionOf(j)]
            ELSE target[k]]
    /\ Commits(j, StaleLabels(j))
    /\ GoesOn(j, "policy")
    /\ UNCHANGED <<runs, restarts, history>>

\* Seeded fault: a row is stamped although its text was edited since.
AnyText(j) ==
    {k \in InSource(j) :
        /\ target[k] # None
        /\ target[k].inference = InferenceOf(j)
        /\ target[k].release_sequence <= SequenceOf(j)
        /\ target[k].spec # SpecOf(j)}

\* Rows this release would have produced as they are, under an older policy.
OlderPolicy(j) ==
    {k \in InSource(j) :
        /\ target[k] # None
        /\ target[k].inference = InferenceOf(j)
        /\ target[k].text = SourceRow(j, k).text
        /\ target[k].release_sequence <= SequenceOf(j)
        /\ target[k].spec # SpecOf(j)}

ResyncPolicy(j) ==
    /\ job[j].stage = "policy"
    /\ target' = [k \in Keys |->
            IF k \in OlderPolicy(j)
            THEN [target[k] EXCEPT !.spec = SpecOf(j),
                                   !.release_sequence = SequenceOf(j),
                                   !.policy_run_id = RunIdOf[j]]
            ELSE target[k]]
    /\ Commits(j, OlderPolicy(j))
    /\ GoesOn(j, "execute")
    /\ UNCHANGED <<runs, restarts, history>>

\* Seeded fault: text that was inferred before is only done in the same version.
SameVersionOnly(j, row, k) ==
    \/ row.release_sequence > SequenceOf(j)
    \/ row.release_sequence = SequenceOf(j) /\ row.source_version > VersionOf(j)

\* The restart predicate.
Done(j, row, k) ==
    \/ row.release_sequence > SequenceOf(j)
    \/ row.release_sequence = SequenceOf(j) /\ row.source_version > VersionOf(j)
    \/ row.text = SourceRow(j, k).text /\ row.inference = InferenceOf(j)

Pending(j) == {k \in InSource(j) : target[k] = None \/ ~Done(j, target[k], k)}

\* Seeded fault: releases are ordered, runs of the same release are not.
SequenceNotLowered(j, row) == row.release_sequence <= SequenceOf(j)

NotLowered(j, row) ==
    \/ row.release_sequence < SequenceOf(j)
    \/ row.release_sequence = SequenceOf(j) /\ row.source_version <= VersionOf(j)

\* The MERGE of the rows `scored'.
Lands(j, scored) ==
    LET landed == {k \in scored : target[k] = None \/ NotLowered(j, target[k])}
    IN  /\ target' = [k \in Keys |-> IF k \in landed THEN LandedRow(j, k) ELSE target[k]]
        /\ Commits(j, landed)
        /\ job' = [job EXCEPT ![j].stage = "history", ![j].pending = {}]
        /\ landings' = [landings EXCEPT ![j] =
                [k \in Keys |-> IF k \in landed THEN @[k] + 1 ELSE @[k]]]
        /\ completed' = completed \cup {<<SpecOf(j), VersionOf(j)>>}
        /\ UNCHANGED <<runs, restarts>>

Execute(j) ==
    /\ job[j].stage = "execute"
    /\ j \notin Simulated
    /\ Lands(j, Pending(j))

Score(j) ==
    /\ job[j].stage = "execute"
    /\ j \in Simulated
    /\ job' = [job EXCEPT ![j].stage = "merge", ![j].pending = Pending(j)]
    /\ UNCHANGED <<table, runs, restarts, history>>

Merge(j) ==
    /\ job[j].stage = "merge"
    /\ Lands(j, job[j].pending)

\* DESCRIBE HISTORY: the newest commit of this run, or of anyone.
ReadHistory(j) ==
    /\ job[j].stage = "history"
    /\ job' = [job EXCEPT ![j].stage = "finalize",
                          ![j].version = IF last_commit[RunIdOf[j]] # 0
                                         THEN last_commit[RunIdOf[j]] ELSE table_version]
    /\ UNCHANGED <<table, runs, restarts, history>>

Finalize(j) ==
    /\ job[j].stage = "finalize"
    /\ runs' = [runs EXCEPT ![RunIdOf[j]].target_table_version =
                    IF @ = None THEN job[j].version ELSE @]
    /\ GoesOn(j, "confirm")
    /\ UNCHANGED <<table, restarts, history>>

Confirm(j) ==
    /\ job[j].stage = "confirm"
    /\ GoesOn(j, IF \/ runs[RunIdOf[j]].spec # SpecOf(j)
                    \/ runs[RunIdOf[j]].target_table_version # job[j].version
                 THEN "refused" ELSE "done")
    /\ UNCHANGED <<table, runs, restarts, history>>

\* The notebook stops, or its answer is lost, and is run again under its run id.
Restart(j) ==
    /\ job[j].stage # "idle"
    /\ restarts < MaxRestarts
    /\ restarts' = restarts + 1
    /\ job' = [job EXCEPT ![j] = Idle]
    /\ UNCHANGED <<table, runs, history>>

Next ==
    \E j \in Jobs :
        \/ Reserve(j)
        \/ CheckRunId(j)
        \/ ResyncStrata(j)
        \/ ResyncPolicy(j)
        \/ Execute(j)
        \/ Score(j)
        \/ Merge(j)
        \/ ReadHistory(j)
        \/ Finalize(j)
        \/ Confirm(j)
        \/ Restart(j)

Spec == Init /\ [][Next]_vars

-----------------------------------------------------------------------------
(* Properties *)

Job ==
    [stage : {"idle", "check", "strata", "policy", "execute", "merge", "history",
              "finalize", "confirm", "done", "refused"},
     plan : Plans \cup {None}, pending : SUBSET Keys, version : Nat]

\* Type invariant.
TypeOK ==
    /\ target \in [Keys -> Row \cup {None}]
    /\ table_version \in Nat
    /\ runs \in [RunIds -> Record \cup {None}]
    /\ last_commit \in [RunIds -> Nat]
    /\ job \in [Jobs -> Job]
    /\ restarts \in 0 .. MaxRestarts
    /\ landings \in [Jobs -> [Keys -> Nat]]
    /\ completed \subseteq Specs \X Versions

\* Both run ids of a landed row lead to a record that tells the truth about the
\* row, whatever overlapped or reused the id: the text is that of the recorded
\* source version, produced under the recorded spec, and the policy's run
\* names the spec that governs the row now and read the same text.
Provenance ==
    \A k \in Keys : target[k] # None =>
        LET row == target[k]
            run == runs[row.run_id]
            policy == runs[row.policy_run_id]
        IN  /\ run # None
            /\ run.source_table_version = row.source_version
            /\ Declared[run.spec].inference = row.inference
            /\ Source[row.source_version][k] # None
            /\ Source[row.source_version][k].text = row.text
            /\ policy # None
            /\ policy.spec = row.spec
            /\ Declared[policy.spec].release_sequence = row.release_sequence
            /\ Declared[policy.spec].inference = row.inference
            /\ Source[policy.source_table_version][k] # None
            /\ Source[policy.source_table_version][k].text = row.text

\* A row that a gated spec governs is backed by some evidence about the very
\* version its policy run read, in which no considered lower bound misses the
\* declared rate and every stratum of that version was measured, and at tier 1
\* by a person: an edited or stale report authorises nothing.
GovernedRows ==
    \A k \in Keys : target[k] # None =>
        LET spec == Declared[target[k].spec]
            policy == runs[target[k].policy_run_id]
        IN  spec.use_tier # 3 =>
                /\ spec.use_tier = 1 => policy.approved_by # None
                /\ \E p \in Plans :
                    /\ p.report # None
                    /\ p.report.snapshot = policy.source_table_version
                    /\ p.report.scores.spec = target[k].spec
                    /\ p.report.scores.population = Preflight(p.report.snapshot).population
                    /\ \A f \in Fields, m \in {"precision", "recall"} :
                        \A g \in Considered(p.report.scores, spec.policy[f]) :
                            LET interval == p.report.scores.groups[f][g][m]
                            IN  interval # None /\ interval.lower >= spec.policy[f].required

\* What a job is about to pay for never exceeds the ceiling its spec declares,
\* whatever estimate it was started with.
SpendWithinCeiling ==
    \A j \in Jobs : job[j].plan # None =>
        /\ job[j].stage = "execute" => Cardinality(Pending(j)) <= Declared[SpecOf(j)].ceiling
        /\ Cardinality(job[j].pending) <= Declared[SpecOf(j)].ceiling

\* A job that is stopped and started again never lands a key it has landed.
LandsOnce == \A j \in Jobs, k \in Keys : landings[j][k] <= 1

\* After a run's MERGE no delayed run takes a row back: each row of its snapshot
\* stays ordered at or above the run, or holds what the run would have landed
\* or what a later version holds.
NoRollback ==
    \A c \in completed : \A k \in Rows(c[2]) :
        LET mine == Declared[c[1]]
            row == target[k]
        IN  /\ row # None
            /\ \/ row.release_sequence > mine.release_sequence
               \/ /\ row.release_sequence = mine.release_sequence
                  /\ row.source_version >= c[2]
               \/ /\ row.inference = mine.inference
                  /\ \E v \in Versions : v >= c[2] /\ Source[v][k] # None
                                                  /\ row.text = Source[v][k].text

=============================================================================
