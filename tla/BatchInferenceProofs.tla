------------------------ MODULE BatchInferenceProofs ------------------------
(***************************************************************************)
(* What BatchInference promises for every source, spec, evidence and       *)
(* number of jobs: rows are traceable (Provenance), governed               *)
(* (GovernedRows), paid for within the ceiling (SpendWithinCeiling) and    *)
(* never lowered in the order of releases and source versions (OrderKept). *)
(*                                                                         *)
(* A plan that passes the gate has a claim, the spec and source version it *)
(* is for and who approved it. The strengthening says that every record of *)
(* the run metadata table makes the claim of an authorised plan, and that  *)
(* a job that writes agrees with the record of its run id. Records keep    *)
(* their claim, so what a row's run ids say of it stays true.              *)
(*                                                                         *)
(* That restarts land nothing twice (LandsOnce) and that no delayed run    *)
(* takes a row back (NoRollback) depends on what releases and edits there  *)
(* are: the hypotheses of these two theorems say on what.                  *)
(***************************************************************************)
EXTENDS BatchInference, FiniteSetTheorems, TLAPS

AuthorisedPlans == {p \in Plans : Authorised(p)}

\* What the record of a run says, and what it says for a plan.
ClaimOf(run) ==
    [spec |-> run.spec, version |-> run.source_table_version, approved_by |-> run.approved_by]
Claims == {ClaimOf(RunRecord(p)) : p \in AuthorisedPlans}

Writing == {"strata", "policy", "execute", "merge", "history", "finalize", "confirm", "done"}

\* A job was started with an authorised plan, and after its check it agrees with
\* the record of its run id.
JobsBacked ==
    \A j \in Jobs :
        /\ job[j].stage = "idle" <=> job[j].plan = None
        /\ job[j].plan # None => job[j].plan \in AuthorisedPlans /\ runs[RunIdOf[j]] # None
        /\ job[j].stage \in Writing =>
            /\ runs[RunIdOf[j]].spec = SpecOf(j)
            /\ runs[RunIdOf[j]].source_table_version = VersionOf(j)
        /\ job[j].pending # {} => job[j].stage = "merge" /\ job[j].pending \subseteq InSource(j)

\* Every record makes the claim of an authorised plan.
RunsBacked == \A r \in RunIds : runs[r] # None => ClaimOf(runs[r]) \in Claims

Backed == TypeOK /\ JobsBacked /\ RunsBacked /\ Provenance

-----------------------------------------------------------------------------
(* The gate *)

\* An authorised plan is for a spec and a version, whose rows it has counted.
LEMMA PlanIsFor ==
    ASSUME NEW p \in AuthorisedPlans
    PROVE  /\ p \in Plans
           /\ p.spec \in Specs
           /\ SnapshotOf(p) \in Versions
           /\ p.preflight = Preflight(SnapshotOf(p))
           /\ Cardinality(Rows(SnapshotOf(p))) <= Declared[p.spec].ceiling
<1>1. p \in Plans /\ Authorised(p)
  BY DEF AuthorisedPlans
<1>2. p.preflight.snapshot = SnapshotOf(p)
  BY <1>1 DEF Authorised
<1>3. p.preflight = Preflight(SnapshotOf(p)) /\ SnapshotOf(p) \in Versions /\ p.spec \in Specs
  BY <1>1, <1>2, PlansAssumption
<1>4. p.preflight.row_count = Cardinality(Rows(SnapshotOf(p)))
  BY <1>3 DEF Preflight
<1>5. p.preflight.row_count <= Declared[p.spec].ceiling
  BY <1>1 DEF Authorised
<1> QED
  BY <1>1, <1>3, <1>4, <1>5

\* What is recorded for an authorised plan is a record and its claim.
LEMMA RecordTyped ==
    ASSUME NEW p \in AuthorisedPlans
    PROVE  RunRecord(p) \in Record /\ ClaimOf(RunRecord(p)) \in Claims
<1>1. p.spec \in Specs /\ SnapshotOf(p) \in Versions /\ p \in Plans
  BY PlanIsFor
<1>2. /\ (IF p.report # None THEN p.report.decision ELSE "not_required")
            \in GateDecision \cup {"not_required"}
      /\ (IF p.report # None THEN p.report.approved_by ELSE None) \in Approvers \cup {None}
  BY <1>1, PlansAssumption
<1>3. RunRecord(p) \in Record
  BY <1>1, <1>2 DEF RunRecord, Record
<1> QED
  BY <1>3 DEF Claims

\* A report that adopts misses no declared rate, in no group considered, and at
\* tier 1 has an approver: for every way in which the verdicts are combined.
LEMMA AdoptMeans ==
    ASSUME NEW r, Implied(r) = "adopt"
    PROVE  /\ r.use_tier = 1 => r.approved_by # None
           /\ \A f \in Fields, m \in {"precision", "recall"} :
                 \A g \in Considered(r.scores, r.policy[f]) :
                     /\ r.scores.groups[f][g][m] # None
                     /\ r.scores.groups[f][g][m].lower >= r.policy[f].required
<1>1. \A V : Combined(V) = "adopt" => "reject" \notin V /\ "inconclusive" \notin V
  BY DEF Combined
<1>2. PICK V : V = {FieldVerdict(r.scores, f, r.policy[f]) : f \in Fields}
  OBVIOUS
<1>3. Combined(V) = "adopt" /\ (r.use_tier = 1 => r.approved_by # None)
  BY <1>2 DEF Implied
<1>4. ASSUME NEW f \in Fields, NEW m \in {"precision", "recall"},
             NEW g \in Considered(r.scores, r.policy[f])
      PROVE  /\ r.scores.groups[f][g][m] # None
             /\ r.scores.groups[f][g][m].lower >= r.policy[f].required
  <2> DEFINE W == {MetricVerdict(r.scores.groups[f][h][n], r.policy[f].required)
                     : h \in Considered(r.scores, r.policy[f]), n \in {"precision", "recall"}}
  <2>1. MetricVerdict(r.scores.groups[f][g][m], r.policy[f].required) \in W
    OBVIOUS
  <2>2. FieldVerdict(r.scores, f, r.policy[f]) = Combined(W)
    BY DEF FieldVerdict
  <2> HIDE DEF W
  <2>3. Combined(W) \in V
    BY <1>2, <2>2
  <2>4. Combined(W) \in {"reject", "inconclusive", "adopt"}
    BY DEF Combined
  <2>5. "reject" \notin W /\ "inconclusive" \notin W
    BY <1>1, <1>3, <2>3, <2>4
  <2> QED
    BY <2>1, <2>5 DEF MetricVerdict
<1> QED
  BY <1>3, <1>4

\* What GovernedRows asks of a claim follows from the gate alone.
LEMMA ClaimGoverned ==
    ASSUME NEW c \in Claims, Declared[c.spec].use_tier # 3
    PROVE  /\ Declared[c.spec].use_tier = 1 => c.approved_by # None
           /\ \E p \in Plans :
                /\ p.report # None
                /\ p.report.snapshot = c.version
                /\ p.report.scores.spec = c.spec
                /\ p.report.scores.population = Preflight(p.report.snapshot).population
                /\ \A f \in Fields, m \in {"precision", "recall"} :
                    \A g \in Considered(p.report.scores, Declared[c.spec].policy[f]) :
                        LET interval == p.report.scores.groups[f][g][m]
                        IN  interval # None /\ interval.lower >= Declared[c.spec].policy[f].required
<1>1. PICK p \in AuthorisedPlans : c = ClaimOf(RunRecord(p))
  BY DEF Claims
<1>2. /\ c.spec = p.spec
      /\ c.version = SnapshotOf(p)
      /\ c.approved_by = IF p.report # None THEN p.report.approved_by ELSE None
  BY <1>1 DEF ClaimOf, RunRecord
<1>3. p \in Plans /\ Authorised(p) /\ p.preflight = Preflight(SnapshotOf(p))
  BY PlanIsFor DEF AuthorisedPlans
<1>4. /\ p.report # None
      /\ p.report.decision = "adopt"
      /\ p.report.decision = Implied(p.report)
      /\ p.report.use_tier = Declared[p.spec].use_tier
      /\ p.report.policy = Declared[p.spec].policy
      /\ p.report.scores.spec = p.spec
      /\ p.report.scores.population = p.preflight.population
  BY <1>2, <1>3 DEF Authorised, Executable, Valid, MatchesSpec, MatchingEvidence
<1>5. p.report.snapshot = c.version
  BY <1>2, <1>4 DEF SnapshotOf
<1>6. Implied(p.report) = "adopt"
  BY <1>4
<1>7. Declared[c.spec].use_tier = 1 => c.approved_by # None
  BY <1>2, <1>4, <1>6, AdoptMeans
<1>8. \A f \in Fields, m \in {"precision", "recall"} :
        \A g \in Considered(p.report.scores, p.report.policy[f]) :
            /\ p.report.scores.groups[f][g][m] # None
            /\ p.report.scores.groups[f][g][m].lower >= p.report.policy[f].required
  BY <1>6, AdoptMeans
<1>9. p.report.policy = Declared[c.spec].policy
  BY <1>2, <1>4
<1>10. p.report.scores.population = Preflight(p.report.snapshot).population
  BY <1>2, <1>3, <1>4, <1>5
<1>11. \A f \in Fields, m \in {"precision", "recall"} :
         \A g \in Considered(p.report.scores, Declared[c.spec].policy[f]) :
             LET interval == p.report.scores.groups[f][g][m]
             IN  interval # None /\ interval.lower >= Declared[c.spec].policy[f].required
  BY <1>8, <1>9, Zenon
<1> QED
  BY <1>2, <1>3, <1>4, <1>5, <1>7, <1>10, <1>11

-----------------------------------------------------------------------------
(* Records, and the rows that a job lands *)

\* What a job of an authorised plan lands is a row.
LEMMA LandedRowTyped ==
    ASSUME NEW j \in Jobs, job[j].plan \in AuthorisedPlans, NEW k \in InSource(j)
    PROVE  LandedRow(j, k) \in Row /\ k \in Keys
<1>1. SpecOf(j) \in Specs /\ VersionOf(j) \in Versions
  BY PlanIsFor DEF SpecOf, VersionOf
<1>2. Declared[SpecOf(j)].release_sequence \in Nat /\ Declared[SpecOf(j)].inference \in Inferences
  BY <1>1, DeclaredAssumption DEF Declaration
<1>3. k \in Keys /\ SourceRow(j, k) # None
  BY DEF InSource, Rows, SourceRow
<1>4. SourceRow(j, k).text \in Texts /\ SourceRow(j, k).label \in Strata
  BY <1>1, <1>3, SourceAssumption DEF SourceRow
<1> QED
  BY <1>1, <1>2, <1>3, <1>4, RunIdAssumption DEF LandedRow, Row, SequenceOf, InferenceOf

\* A record that is there stays, with its claim.
RecordsKept ==
    \A r \in RunIds : runs[r] # None =>
        /\ runs'[r] # None
        /\ runs'[r].spec = runs[r].spec
        /\ runs'[r].source_table_version = runs[r].source_table_version
        /\ runs'[r].approved_by = runs[r].approved_by

\* Reserving a run id adds a record and leaves the others.
LEMMA ReserveKeeps ==
    ASSUME TypeOK, NEW j \in Jobs, NEW p \in AuthorisedPlans,
           runs' = [runs EXCEPT ![RunIdOf[j]] = IF @ = None THEN RunRecord(p) ELSE @]
    PROVE  /\ runs' \in [RunIds -> Record \cup {None}]
           /\ RecordsKept
           /\ runs'[RunIdOf[j]] # None
           /\ \A r \in RunIds : runs'[r] = runs[r] \/ runs'[r] = RunRecord(p)
<1>1. RunRecord(p) \in Record /\ RunRecord(p) # None
  BY RecordTyped, NoneAssumption
<1>2. RunIdOf[j] \in RunIds
  BY RunIdAssumption
<1> QED
  BY <1>1, <1>2 DEF TypeOK, RecordsKept

\* Finalizing a run completes its record and leaves its claim.
LEMMA FinalizeKeeps ==
    ASSUME TypeOK, NEW j \in Jobs, runs[RunIdOf[j]] # None, NEW n \in Nat,
           runs' = [runs EXCEPT ![RunIdOf[j]].target_table_version =
                        IF @ = None THEN n ELSE @]
    PROVE  runs' \in [RunIds -> Record \cup {None}] /\ RecordsKept
<1>1. RunIdOf[j] \in RunIds
  BY RunIdAssumption
<1>2. runs[RunIdOf[j]] \in Record
  BY <1>1 DEF TypeOK
<1>3. PICK rec : rec = [runs[RunIdOf[j]] EXCEPT !.target_table_version = IF @ = None THEN n ELSE @]
  OBVIOUS
<1>4. /\ rec \in Record
      /\ rec.spec = runs[RunIdOf[j]].spec
      /\ rec.source_table_version = runs[RunIdOf[j]].source_table_version
      /\ rec.approved_by = runs[RunIdOf[j]].approved_by
  BY <1>2, <1>3 DEF Record
<1>5. runs' = [runs EXCEPT ![RunIdOf[j]] = rec]
  BY <1>3
<1>6. rec # None
  BY <1>4, NoneAssumption
<1> QED
  BY <1>1, <1>4, <1>5, <1>6 DEF TypeOK, RecordsKept

-----------------------------------------------------------------------------
(* Types *)

\* A commit moves the version counters on.
LEMMA CommitsTyped ==
    ASSUME TypeOK, NEW j \in Jobs, NEW S, Commits(j, S)
    PROVE  table_version' \in Nat /\ last_commit' \in [RunIds -> Nat]
<1>1. CASE S = {}
  BY <1>1 DEF TypeOK, Commits
<1>2. CASE S # {}
  <2>1. /\ table_version' = table_version + 1
        /\ last_commit' = [last_commit EXCEPT ![RunIdOf[j]] = table_version + 1]
    BY <1>2 DEF Commits
  <2>2. table_version + 1 \in Nat /\ last_commit \in [RunIds -> Nat]
    BY DEF TypeOK
  <2> QED
    BY <2>1, <2>2
<1> QED
  BY <1>1, <1>2

\* The MERGE of a job keeps every table typed.
LEMMA LandsTyped ==
    ASSUME TypeOK, NEW j \in Jobs, job[j].plan \in AuthorisedPlans,
           NEW S \in SUBSET InSource(j), Lands(j, S)
    PROVE  TypeOK'
<1>1. PICK L : /\ L \subseteq S
               /\ target' = [k \in Keys |-> IF k \in L THEN LandedRow(j, k) ELSE target[k]]
               /\ Commits(j, L)
               /\ landings' = [landings EXCEPT ![j] =
                        [k \in Keys |-> IF k \in L THEN @[k] + 1 ELSE @[k]]]
  BY DEF Lands
<1>2. target' \in [Keys -> Row \cup {None}]
  BY <1>1, LandedRowTyped DEF TypeOK
<1>3. landings' \in [Jobs -> [Keys -> Nat]]
  BY <1>1 DEF TypeOK
<1>4. job' \in [Jobs -> Job]
  BY ZenonT(40) DEF Lands, TypeOK, Job
<1>5. completed' \subseteq Specs \X Versions
  BY PlanIsFor DEF Lands, TypeOK, SpecOf, VersionOf
<1>6. UNCHANGED <<runs, restarts>>
  BY DEF Lands
<1> QED
  BY <1>1, <1>2, <1>3, <1>4, <1>5, <1>6, CommitsTyped DEF TypeOK

\* Every statement keeps the types.
LEMMA TypeStep == TypeOK /\ JobsBacked /\ [Next]_vars => TypeOK'
<1> SUFFICES ASSUME TypeOK, JobsBacked, [Next]_vars PROVE TypeOK'
  OBVIOUS
<1> USE DEF table, history, GoesOn
<1>1. ASSUME NEW j \in Jobs, Reserve(j) PROVE TypeOK'
  <2>1. PICK p \in AuthorisedPlans :
            /\ runs' = [runs EXCEPT ![RunIdOf[j]] = IF @ = None THEN RunRecord(p) ELSE @]
            /\ job' = [job EXCEPT ![j].stage = "check", ![j].plan = p]
    BY <1>1 DEF Reserve, AuthorisedPlans
  <2>2. job' \in [Jobs -> Job]
    BY ZenonT(40), <2>1, PlanIsFor DEF TypeOK, Job
  <2>3. runs' \in [RunIds -> Record \cup {None}]
    BY <2>1, ReserveKeeps
  <2> QED
    BY <1>1, <2>2, <2>3 DEF Reserve, TypeOK
<1>2. ASSUME NEW j \in Jobs, CheckRunId(j) PROVE TypeOK'
  BY ZenonT(40), <1>2 DEF CheckRunId, TypeOK, Job
<1>3. ASSUME NEW j \in Jobs, ResyncStrata(j) PROVE TypeOK'
  <2>1. job[j].plan \in AuthorisedPlans
    BY <1>3 DEF ResyncStrata, JobsBacked
  <2>2. target' \in [Keys -> Row \cup {None}]
    <3>1. ASSUME NEW k \in StaleLabels(j)
          PROVE  [target[k] EXCEPT !.label = SourceRow(j, k).label,
                                   !.strata_version = VersionOf(j)] \in Row
      <4>1. target[k] \in Row
        BY <3>1 DEF StaleLabels, TypeOK, InSource, Rows
      <4>2. LandedRow(j, k) \in Row
        BY <2>1, <3>1, LandedRowTyped DEF StaleLabels
      <4>3. SourceRow(j, k).label \in Strata /\ VersionOf(j) \in Versions
        BY <4>2 DEF LandedRow, Row
      <4> QED
        BY <4>1, <4>3 DEF Row
    <3> QED
      BY <1>3, <3>1 DEF ResyncStrata, TypeOK
  <2>3. job' \in [Jobs -> Job]
    BY ZenonT(40), <1>3 DEF ResyncStrata, TypeOK, Job
  <2>4. Commits(j, StaleLabels(j)) /\ UNCHANGED <<runs, restarts, landings, completed>>
    BY <1>3 DEF ResyncStrata
  <2> QED
    BY <2>2, <2>3, <2>4, CommitsTyped DEF TypeOK
<1>4. ASSUME NEW j \in Jobs, ResyncPolicy(j) PROVE TypeOK'
  <2>1. job[j].plan \in AuthorisedPlans
    BY <1>4 DEF ResyncPolicy, JobsBacked
  <2>2. target' \in [Keys -> Row \cup {None}]
    <3>1. ASSUME NEW k \in OlderPolicy(j)
          PROVE  [target[k] EXCEPT !.spec = SpecOf(j), !.release_sequence = SequenceOf(j),
                                   !.policy_run_id = RunIdOf[j]] \in Row
      <4>1. target[k] \in Row
        BY <3>1 DEF OlderPolicy, TypeOK, InSource, Rows
      <4>2. LandedRow(j, k) \in Row
        BY <2>1, <3>1, LandedRowTyped DEF OlderPolicy
      <4>3. SpecOf(j) \in Specs /\ SequenceOf(j) \in Nat /\ RunIdOf[j] \in RunIds
        BY <4>2 DEF LandedRow, Row
      <4> QED
        BY <4>1, <4>3 DEF Row
    <3> QED
      BY <1>4, <3>1 DEF ResyncPolicy, TypeOK
  <2>3. job' \in [Jobs -> Job]
    BY ZenonT(40), <1>4 DEF ResyncPolicy, TypeOK, Job
  <2>4. Commits(j, OlderPolicy(j)) /\ UNCHANGED <<runs, restarts, landings, completed>>
    BY <1>4 DEF ResyncPolicy
  <2> QED
    BY <2>2, <2>3, <2>4, CommitsTyped DEF TypeOK
<1>5. ASSUME NEW j \in Jobs, Execute(j) PROVE TypeOK'
  <2>1. job[j].plan \in AuthorisedPlans /\ Pending(j) \in SUBSET InSource(j) /\ Lands(j, Pending(j))
    BY <1>5 DEF Execute, JobsBacked, Pending
  <2> QED
    BY <2>1, LandsTyped
<1>6. ASSUME NEW j \in Jobs, Score(j) PROVE TypeOK'
  <2>1. PICK scored \in SUBSET Keys : scored = Pending(j)
    BY DEF Pending, InSource, Rows
  <2>2. job' \in [Jobs -> Job]
    <3>1. job' = [job EXCEPT ![j].stage = "merge", ![j].pending = scored]
      BY <1>6, <2>1 DEF Score
    <3>2. [job[j] EXCEPT !.stage = "merge", !.pending = scored] \in Job
      BY DEF TypeOK, Job
    <3> QED
      BY <3>1, <3>2 DEF TypeOK
  <2> QED
    BY <1>6, <2>2 DEF Score, TypeOK
<1>7. ASSUME NEW j \in Jobs, Merge(j) PROVE TypeOK'
  <2>1. job[j].plan \in AuthorisedPlans /\ job[j].pending \in SUBSET InSource(j)
        /\ Lands(j, job[j].pending)
    BY <1>7 DEF Merge, JobsBacked
  <2> QED
    BY <2>1, LandsTyped
<1>8. ASSUME NEW j \in Jobs, ReadHistory(j) PROVE TypeOK'
  <2>1. (IF last_commit[RunIdOf[j]] # 0 THEN last_commit[RunIdOf[j]] ELSE table_version) \in Nat
    BY RunIdAssumption DEF TypeOK
  <2>2. PICK n \in Nat : job' = [job EXCEPT ![j].stage = "finalize", ![j].version = n]
    BY <1>8, <2>1 DEF ReadHistory
  <2>3. job' \in [Jobs -> Job]
    BY ZenonT(40), <2>2 DEF TypeOK, Job
  <2> QED
    BY <1>8, <2>3 DEF ReadHistory, TypeOK
<1>9. ASSUME NEW j \in Jobs, Finalize(j) PROVE TypeOK'
  <2>1. runs[RunIdOf[j]] # None /\ job[j].version \in Nat
    BY <1>9 DEF Finalize, JobsBacked, TypeOK, Job
  <2>2. runs' \in [RunIds -> Record \cup {None}]
    BY <1>9, <2>1, FinalizeKeeps DEF Finalize
  <2> QED
    BY ZenonT(40), <1>9, <2>2 DEF Finalize, TypeOK, Job
<1>10. ASSUME NEW j \in Jobs, Confirm(j) PROVE TypeOK'
  <2>1. PICK s \in {"refused", "done"} : job' = [job EXCEPT ![j].stage = s]
    BY <1>10 DEF Confirm
  <2>2. job' \in [Jobs -> Job]
    BY ZenonT(40), <2>1 DEF TypeOK, Job
  <2>3. UNCHANGED <<target, table_version, last_commit, runs, restarts, landings, completed>>
    BY <1>10 DEF Confirm
  <2> QED
    BY <2>2, <2>3 DEF TypeOK
<1>11. ASSUME NEW j \in Jobs, Restart(j) PROVE TypeOK'
  <2>1. Idle \in Job
    BY DEF Idle, Job
  <2>2. job' \in [Jobs -> Job]
    BY <1>11, <2>1 DEF Restart, TypeOK
  <2>3. restarts' \in 0 .. MaxRestarts
    BY <1>11, RestartsAssumption DEF Restart, TypeOK
  <2> QED
    BY <1>11, <2>2, <2>3 DEF Restart, TypeOK
<1>12. CASE UNCHANGED vars
  BY <1>12 DEF vars, TypeOK
<1> QED
  BY <1>1, <1>2, <1>3, <1>4, <1>5, <1>6, <1>7, <1>8, <1>9, <1>10, <1>11, <1>12 DEF Next

-----------------------------------------------------------------------------
(* Jobs and records *)

\* No statement changes the claim of a record.
LEMMA RecordsKeptStep == TypeOK /\ JobsBacked /\ [Next]_vars => RecordsKept
<1> SUFFICES ASSUME TypeOK, JobsBacked, [Next]_vars PROVE RecordsKept
  OBVIOUS
<1>1. ASSUME NEW j \in Jobs, Reserve(j) PROVE RecordsKept
  <2>1. PICK p \in AuthorisedPlans :
            runs' = [runs EXCEPT ![RunIdOf[j]] = IF @ = None THEN RunRecord(p) ELSE @]
    BY <1>1 DEF Reserve, AuthorisedPlans
  <2> QED
    BY <2>1, ReserveKeeps
<1>2. ASSUME NEW j \in Jobs, Finalize(j) PROVE RecordsKept
  <2>1. runs[RunIdOf[j]] # None /\ job[j].version \in Nat
    BY <1>2 DEF Finalize, JobsBacked, TypeOK, Job
  <2> QED
    BY <1>2, <2>1, FinalizeKeeps DEF Finalize
<1>3. CASE UNCHANGED runs
  BY <1>3 DEF RecordsKept
<1> QED
  BY <1>1, <1>2, <1>3
  DEF Next, CheckRunId, ResyncStrata, ResyncPolicy, Execute, Score, Merge, Lands, ReadHistory,
      Confirm, Restart, vars

\* A job that moves on, while its plan and the records' claims stay, stays backed.
LEMMA MovesOn ==
    ASSUME TypeOK, JobsBacked, RecordsKept, NEW i \in Jobs,
           \A j \in Jobs : j # i => job'[j] = job[j],
           job'[i].plan = job[i].plan,
           job[i].stage # "idle", job'[i].stage # "idle",
           job'[i].stage \in Writing =>
               \/ job[i].stage \in Writing
               \/ /\ runs[RunIdOf[i]].spec = job[i].plan.spec
                  /\ runs[RunIdOf[i]].source_table_version = SnapshotOf(job[i].plan),
           job'[i].pending # {} => /\ job'[i].stage = "merge"
                                   /\ job'[i].pending \subseteq Rows(SnapshotOf(job[i].plan))
    PROVE  JobsBacked'
<1>1. ASSUME NEW j \in Jobs
      PROVE  /\ job'[j].stage = "idle" <=> job'[j].plan = None
             /\ job'[j].plan # None => job'[j].plan \in AuthorisedPlans /\ runs'[RunIdOf[j]] # None
             /\ job'[j].stage \in Writing =>
                 /\ runs'[RunIdOf[j]].spec = job'[j].plan.spec
                 /\ runs'[RunIdOf[j]].source_table_version = SnapshotOf(job'[j].plan)
             /\ job'[j].pending # {} => /\ job'[j].stage = "merge"
                                        /\ job'[j].pending \subseteq Rows(SnapshotOf(job'[j].plan))
  <2>1. RunIdOf[j] \in RunIds
    BY RunIdAssumption
  <2>2. /\ job[j].stage = "idle" <=> job[j].plan = None
        /\ job[j].plan # None => job[j].plan \in AuthorisedPlans /\ runs[RunIdOf[j]] # None
        /\ job[j].stage \in Writing =>
            /\ runs[RunIdOf[j]].spec = job[j].plan.spec
            /\ runs[RunIdOf[j]].source_table_version = SnapshotOf(job[j].plan)
        /\ job[j].pending # {} => /\ job[j].stage = "merge"
                                  /\ job[j].pending \subseteq Rows(SnapshotOf(job[j].plan))
    BY DEF JobsBacked, SpecOf, VersionOf, InSource
  <2>3. job[j].stage \in Writing => job[j].plan # None
    BY <2>2 DEF Writing
  <2>4. runs[RunIdOf[j]] # None =>
            /\ runs'[RunIdOf[j]] # None
            /\ runs'[RunIdOf[j]].spec = runs[RunIdOf[j]].spec
            /\ runs'[RunIdOf[j]].source_table_version = runs[RunIdOf[j]].source_table_version
    BY <2>1 DEF RecordsKept
  <2>5. CASE j # i
    <3>1. job'[j] = job[j]
      BY <2>5
    <3> QED
      BY <2>2, <2>3, <2>4, <3>1
  <2>6. CASE j = i
    BY <2>2, <2>3, <2>4, <2>6
  <2> QED
    BY <2>5, <2>6
<1> QED
  BY <1>1 DEF JobsBacked, SpecOf, VersionOf, InSource

\* Every statement keeps the jobs backed.
LEMMA JobsStep == TypeOK /\ JobsBacked /\ [Next]_vars => JobsBacked'
<1> SUFFICES ASSUME TypeOK, JobsBacked, [Next]_vars PROVE JobsBacked'
  OBVIOUS
<1> USE DEF GoesOn, Writing
<1>k. RecordsKept
  BY RecordsKeptStep
<1>t. job \in [Jobs -> Job]
  BY DEF TypeOK
<1>1. ASSUME NEW i \in Jobs, CheckRunId(i) PROVE JobsBacked'
  BY <1>1, <1>k, <1>t, MovesOn DEF CheckRunId, RunIdClash, Job, JobsBacked, SpecOf, VersionOf
<1>2. ASSUME NEW i \in Jobs, ResyncStrata(i) PROVE JobsBacked'
  BY ZenonT(40), <1>2, <1>k, <1>t, MovesOn DEF ResyncStrata, Job, JobsBacked
<1>3. ASSUME NEW i \in Jobs, ResyncPolicy(i) PROVE JobsBacked'
  BY ZenonT(40), <1>3, <1>k, <1>t, MovesOn DEF ResyncPolicy, Job, JobsBacked
<1>4. ASSUME NEW i \in Jobs, Execute(i) PROVE JobsBacked'
  BY <1>4, <1>k, <1>t, MovesOn DEF Execute, Lands, Job
<1>5. ASSUME NEW i \in Jobs, Score(i) PROVE JobsBacked'
  <2>1. Pending(i) \subseteq Rows(SnapshotOf(job[i].plan))
    BY DEF Pending, InSource, VersionOf
  <2> QED
    BY <1>5, <2>1, <1>k, <1>t, MovesOn DEF Score, Job
<1>6. ASSUME NEW i \in Jobs, Merge(i) PROVE JobsBacked'
  BY <1>6, <1>k, <1>t, MovesOn DEF Merge, Lands, Job
<1>7. ASSUME NEW i \in Jobs, ReadHistory(i) PROVE JobsBacked'
  BY SMTT(30), <1>7, <1>k, <1>t, MovesOn DEF ReadHistory, Job, JobsBacked
<1>8. ASSUME NEW i \in Jobs, Finalize(i) PROVE JobsBacked'
  BY <1>8, <1>k, <1>t, MovesOn DEF Finalize, Job, JobsBacked
<1>9. ASSUME NEW i \in Jobs, Confirm(i) PROVE JobsBacked'
  BY <1>9, <1>k, <1>t, MovesOn DEF Confirm, Job, JobsBacked
<1>10. ASSUME NEW i \in Jobs, Reserve(i) PROVE JobsBacked'
  <2>1. PICK p \in AuthorisedPlans :
            /\ runs' = [runs EXCEPT ![RunIdOf[i]] = IF @ = None THEN RunRecord(p) ELSE @]
            /\ job' = [job EXCEPT ![i].stage = "check", ![i].plan = p]
    BY <1>10 DEF Reserve, AuthorisedPlans
  <2>2. /\ job'[i].stage = "check"
        /\ job'[i].plan = p
        /\ job'[i].pending = job[i].pending
        /\ \A j \in Jobs : j # i => job'[j] = job[j]
    BY <1>t, <2>1 DEF Job
  <2>3. p # None /\ runs'[RunIdOf[i]] # None /\ job[i].pending = {}
    <3>1. p # None
      BY PlanIsFor, NoneAssumption
    <3>2. runs'[RunIdOf[i]] # None
      BY <2>1, ReserveKeeps
    <3>3. job[i].pending = {}
      BY <1>10 DEF Reserve, JobsBacked
    <3> QED
      BY <3>1, <3>2, <3>3
  <2>4. ASSUME NEW j \in Jobs, j # i
        PROVE  /\ job[j].stage = "idle" <=> job[j].plan = None
               /\ job[j].plan # None => job[j].plan \in AuthorisedPlans /\ runs'[RunIdOf[j]] # None
               /\ job[j].stage \in Writing =>
                   /\ runs'[RunIdOf[j]].spec = job[j].plan.spec
                   /\ runs'[RunIdOf[j]].source_table_version = SnapshotOf(job[j].plan)
               /\ job[j].pending # {} => /\ job[j].stage = "merge"
                                         /\ job[j].pending \subseteq Rows(SnapshotOf(job[j].plan))
    <3>1. RunIdOf[j] \in RunIds
      BY RunIdAssumption
    <3>2. /\ job[j].stage = "idle" <=> job[j].plan = None
          /\ job[j].plan # None => job[j].plan \in AuthorisedPlans /\ runs[RunIdOf[j]] # None
          /\ job[j].stage \in Writing =>
              /\ runs[RunIdOf[j]].spec = job[j].plan.spec
              /\ runs[RunIdOf[j]].source_table_version = SnapshotOf(job[j].plan)
          /\ job[j].pending # {} => /\ job[j].stage = "merge"
                                    /\ job[j].pending \subseteq Rows(SnapshotOf(job[j].plan))
      BY DEF JobsBacked, SpecOf, VersionOf, InSource
    <3> QED
      BY <1>k, <3>1, <3>2 DEF RecordsKept
  <2> QED
    BY <2>2, <2>3, <2>4 DEF JobsBacked, SpecOf, VersionOf, InSource
<1>11. ASSUME NEW i \in Jobs, Restart(i) PROVE JobsBacked'
  <2>1. runs' = runs /\ \A j \in Jobs : job'[j] = IF j = i THEN Idle ELSE job[j]
    BY <1>11, <1>t DEF Restart
  <2> QED
    BY <2>1 DEF JobsBacked, SpecOf, VersionOf, InSource, Idle
<1>12. CASE UNCHANGED vars
  BY <1>12 DEF vars, JobsBacked, SpecOf, VersionOf, InSource
<1> QED
  BY <1>1, <1>2, <1>3, <1>4, <1>5, <1>6, <1>7, <1>8, <1>9, <1>10, <1>11, <1>12 DEF Next

\* A record is only ever made for an authorised plan.
LEMMA RunsStep == TypeOK /\ JobsBacked /\ RunsBacked /\ [Next]_vars => RunsBacked'
<1> SUFFICES ASSUME TypeOK, JobsBacked, RunsBacked, [Next]_vars,
                    NEW r \in RunIds, runs'[r] # None
             PROVE  ClaimOf(runs'[r]) \in Claims
  BY DEF RunsBacked
<1>1. CASE runs[r] # None
  BY <1>1, RecordsKeptStep DEF RecordsKept, RunsBacked, ClaimOf
<1>2. CASE runs[r] = None
  <2>1. ASSUME NEW j \in Jobs, Reserve(j) PROVE ClaimOf(runs'[r]) \in Claims
    <3>1. PICK p \in AuthorisedPlans :
              runs' = [runs EXCEPT ![RunIdOf[j]] = IF @ = None THEN RunRecord(p) ELSE @]
      BY <2>1 DEF Reserve, AuthorisedPlans
    <3>2. runs'[r] = RunRecord(p)
      BY <1>2, <3>1, ReserveKeeps
    <3> QED
      BY <3>2, RecordTyped
  <2>2. ASSUME NEW j \in Jobs, Finalize(j) PROVE FALSE
    BY <1>2, <2>2, RunIdAssumption DEF Finalize, JobsBacked, TypeOK
  <2>3. CASE UNCHANGED runs
    BY <1>2, <2>3
  <2> QED
    BY <2>1, <2>2, <2>3
    DEF Next, CheckRunId, ResyncStrata, ResyncPolicy, Execute, Score, Merge, Lands, ReadHistory,
        Confirm, Restart, vars
<1> QED
  BY <1>1, <1>2

-----------------------------------------------------------------------------
(* Rows *)

\* What Provenance says of one row, from the records that it names.
Told(k, row, run, policy) ==
    /\ run # None
    /\ run.source_table_version = row.source_version
    /\ Declared[run.spec].inference = row.inference
    /\ Source[row.source_version][k] # None
    /\ Source[row.source_version][k].text = row.text
    /\ policy # None
    /\ policy.spec = row.spec
    /\ Declared[policy.spec].release_sequence = row.release_sequence
    /\ Declared[policy.spec].inference = row.inference
    /\ Source[policy.source_table_version][k] # None
    /\ Source[policy.source_table_version][k].text = row.text

\* Provenance, row by row.
LEMMA ProvenanceTold ==
    Provenance <=> \A k \in Keys : target[k] # None =>
        Told(k, target[k], runs[target[k].run_id], runs[target[k].policy_run_id])
BY DEF Provenance, Told

\* What the records tell of an old row they still tell.
LEMMA StillTold ==
    ASSUME TypeOK, RecordsKept, Provenance, NEW k \in Keys, target[k] # None
    PROVE  Told(k, target[k], runs'[target[k].run_id], runs'[target[k].policy_run_id])
<1>1. target[k] \in Row
  BY DEF TypeOK
<1>2. target[k].run_id \in RunIds /\ target[k].policy_run_id \in RunIds
  BY <1>1 DEF Row
<1> QED
  BY <1>2 DEF Provenance, Told, RecordsKept

\* What a job lands is told by the record of its run id.
LEMMA LandedTold ==
    ASSUME TypeOK, JobsBacked, RecordsKept, NEW j \in Jobs, job[j].stage \in Writing,
           NEW k \in InSource(j)
    PROVE  Told(k, LandedRow(j, k), runs'[RunIdOf[j]], runs'[RunIdOf[j]])
<1>1. RunIdOf[j] \in RunIds
  BY RunIdAssumption
<1>2. job[j].plan # None
  BY DEF JobsBacked, Writing
<1>3. /\ runs'[RunIdOf[j]] # None
      /\ runs'[RunIdOf[j]].spec = SpecOf(j)
      /\ runs'[RunIdOf[j]].source_table_version = VersionOf(j)
  BY <1>1, <1>2 DEF JobsBacked, RecordsKept
<1>4. SourceRow(j, k) # None
  BY DEF InSource, Rows, SourceRow
<1> QED
  BY <1>3, <1>4 DEF Told, LandedRow, SequenceOf, InferenceOf, SourceRow

\* The MERGE of a job keeps every row traceable.
LEMMA LandsProvenance ==
    ASSUME TypeOK, JobsBacked, RecordsKept, Provenance,
           NEW j \in Jobs, job[j].stage \in Writing, NEW S \in SUBSET InSource(j), Lands(j, S)
    PROVE  Provenance'
<1>1. SUFFICES ASSUME NEW k \in Keys, target'[k] # None
               PROVE  Told(k, target'[k], runs'[target'[k].run_id], runs'[target'[k].policy_run_id])
  BY DEF Provenance, Told
<1>2. target'[k] = target[k] \/ (k \in S /\ target'[k] = LandedRow(j, k))
  BY DEF Lands
<1>3. CASE target'[k] = target[k]
  BY <1>1, <1>3, StillTold
<1>4. CASE k \in S /\ target'[k] = LandedRow(j, k)
  <2>1. target'[k].run_id = RunIdOf[j] /\ target'[k].policy_run_id = RunIdOf[j]
    BY <1>4 DEF LandedRow
  <2> QED
    BY <1>4, <2>1, LandedTold
<1> QED
  BY <1>2, <1>3, <1>4

\* So does every other statement.
LEMMA ProvenanceStep == TypeOK /\ JobsBacked /\ Provenance /\ [Next]_vars => Provenance'
<1> SUFFICES ASSUME TypeOK, JobsBacked, Provenance, [Next]_vars PROVE Provenance'
  OBVIOUS
<1>k. RecordsKept
  BY RecordsKeptStep
<1>1. ASSUME NEW j \in Jobs, ResyncStrata(j) PROVE Provenance'
  <2>1. SUFFICES ASSUME NEW k \in Keys, target'[k] # None
                 PROVE  Told(k, target'[k], runs'[target'[k].run_id], runs'[target'[k].policy_run_id])
    BY DEF Provenance, Told
  <2>2. CASE k \notin StaleLabels(j)
    <3>1. target'[k] = target[k]
      BY <1>1, <2>2 DEF ResyncStrata
    <3> QED
      BY <1>k, <2>1, <3>1, StillTold
  <2>3. CASE k \in StaleLabels(j)
    <3>1. target[k] # None /\ target[k] \in Row
      BY <2>3 DEF StaleLabels, TypeOK
    <3>2. target'[k] = [target[k] EXCEPT !.label = SourceRow(j, k).label,
                                         !.strata_version = VersionOf(j)]
      BY <1>1, <2>3 DEF ResyncStrata
    <3>3. /\ target'[k].run_id = target[k].run_id
          /\ target'[k].policy_run_id = target[k].policy_run_id
          /\ target'[k].text = target[k].text
          /\ target'[k].spec = target[k].spec
          /\ target'[k].release_sequence = target[k].release_sequence
          /\ target'[k].inference = target[k].inference
          /\ target'[k].source_version = target[k].source_version
      BY <3>1, <3>2 DEF Row
    <3>4. Told(k, target[k], runs'[target[k].run_id], runs'[target[k].policy_run_id])
      BY <1>k, <3>1, StillTold
    <3> QED
      BY <3>3, <3>4 DEF Told
  <2> QED
    BY <2>2, <2>3
<1>2. ASSUME NEW j \in Jobs, ResyncPolicy(j) PROVE Provenance'
  <2>1. SUFFICES ASSUME NEW k \in Keys, target'[k] # None
                 PROVE  Told(k, target'[k], runs'[target'[k].run_id], runs'[target'[k].policy_run_id])
    BY DEF Provenance, Told
  <2>2. CASE k \notin OlderPolicy(j)
    <3>1. target'[k] = target[k]
      BY <1>2, <2>2 DEF ResyncPolicy
    <3> QED
      BY <1>k, <2>1, <3>1, StillTold
  <2>3. CASE k \in OlderPolicy(j)
    <3>1. /\ target[k] # None /\ target[k] \in Row /\ k \in InSource(j)
          /\ target[k].inference = InferenceOf(j)
          /\ target[k].text = SourceRow(j, k).text
      BY <2>3 DEF OlderPolicy, TypeOK
    <3>2. target'[k] = [target[k] EXCEPT !.spec = SpecOf(j), !.release_sequence = SequenceOf(j),
                                         !.policy_run_id = RunIdOf[j]]
      BY <1>2, <2>3 DEF ResyncPolicy
    <3>3. /\ target'[k].run_id = target[k].run_id
          /\ target'[k].policy_run_id = RunIdOf[j]
          /\ target'[k].text = target[k].text
          /\ target'[k].spec = SpecOf(j)
          /\ target'[k].release_sequence = SequenceOf(j)
          /\ target'[k].inference = target[k].inference
          /\ target'[k].source_version = target[k].source_version
      BY <3>1, <3>2 DEF Row
    <3>4. Told(k, target[k], runs'[target[k].run_id], runs'[target[k].policy_run_id])
      BY <1>k, <3>1, StillTold
    <3>5. Told(k, LandedRow(j, k), runs'[RunIdOf[j]], runs'[RunIdOf[j]])
      BY <1>2, <1>k, <3>1, LandedTold DEF ResyncPolicy, Writing
    <3> QED
      BY <3>1, <3>3, <3>4, <3>5 DEF Told, LandedRow
  <2> QED
    BY <2>2, <2>3
<1>3. ASSUME NEW j \in Jobs, Execute(j) PROVE Provenance'
  <2>1. job[j].stage \in Writing /\ Pending(j) \in SUBSET InSource(j) /\ Lands(j, Pending(j))
    BY <1>3 DEF Execute, Pending, Writing
  <2> QED
    BY <1>k, <2>1, LandsProvenance
<1>4. ASSUME NEW j \in Jobs, Merge(j) PROVE Provenance'
  <2>1. job[j].stage \in Writing /\ job[j].pending \in SUBSET InSource(j)
        /\ Lands(j, job[j].pending)
    BY <1>4 DEF Merge, JobsBacked, Writing
  <2> QED
    BY <1>k, <2>1, LandsProvenance
<1>5. CASE UNCHANGED target
  <2>1. SUFFICES ASSUME NEW k \in Keys, target'[k] # None
                 PROVE  Told(k, target'[k], runs'[target'[k].run_id], runs'[target'[k].policy_run_id])
    BY DEF Provenance, Told
  <2> QED
    BY <1>5, <1>k, <2>1, StillTold
<1> QED
  BY <1>1, <1>2, <1>3, <1>4, <1>5
  DEF Next, Reserve, CheckRunId, Score, ReadHistory, Finalize, Confirm, Restart, table, vars

-----------------------------------------------------------------------------

\* Empty tables and idle jobs are backed.
LEMMA InitBacked == Init => Backed
<1> SUFFICES ASSUME Init PROVE Backed
  OBVIOUS
<1>1. TypeOK
  BY RestartsAssumption DEF Init, TypeOK, Idle, Job
<1>2. JobsBacked
  BY DEF Init, JobsBacked, Idle, Writing
<1>3. RunsBacked /\ Provenance
  BY DEF Init, RunsBacked, Provenance
<1> QED
  BY <1>1, <1>2, <1>3 DEF Backed

\* The inductive invariant holds in every reachable state.
LEMMA AlwaysBacked == Spec => []Backed
<1>1. Init => Backed
  BY InitBacked
<1>2. Backed /\ [Next]_vars => Backed'
  BY TypeStep, JobsStep, RunsStep, ProvenanceStep DEF Backed
<1> QED
  BY <1>1, <1>2, PTL DEF Spec

\* Every table and every job keeps its type.
THEOREM BatchTyped == Spec => []TypeOK
<1>1. Backed => TypeOK
  BY DEF Backed
<1> QED
  BY <1>1, AlwaysBacked, PTL

\* The run ids of a row lead to records that tell the truth about it.
THEOREM RowsTraceable == Spec => []Provenance
<1>1. Backed => Provenance
  BY DEF Backed
<1> QED
  BY <1>1, AlwaysBacked, PTL

\* A row under a gated spec is backed by evidence that meets every declared rate.
THEOREM RowsGoverned == Spec => []GovernedRows
<1>1. Backed => GovernedRows
  <2> SUFFICES ASSUME Backed, NEW k \in Keys, target[k] # None,
                      Declared[target[k].spec].use_tier # 3
               PROVE  /\ Declared[target[k].spec].use_tier = 1
                             => runs[target[k].policy_run_id].approved_by # None
                      /\ \E p \in Plans :
                          /\ p.report # None
                          /\ p.report.snapshot = runs[target[k].policy_run_id].source_table_version
                          /\ p.report.scores.spec = target[k].spec
                          /\ p.report.scores.population = Preflight(p.report.snapshot).population
                          /\ \A f \in Fields, m \in {"precision", "recall"} :
                              \A g \in Considered(p.report.scores,
                                                  Declared[target[k].spec].policy[f]) :
                                  LET interval == p.report.scores.groups[f][g][m]
                                  IN  /\ interval # None
                                      /\ interval.lower
                                            >= Declared[target[k].spec].policy[f].required
    BY Zenon DEF GovernedRows
  <2>1. target[k] \in Row
    BY DEF Backed, TypeOK
  <2>2. target[k].policy_run_id \in RunIds
    BY <2>1 DEF Row
  <2>3. PICK run : run = runs[target[k].policy_run_id]
    OBVIOUS
  <2>4. run # None /\ run.spec = target[k].spec
    BY <2>3 DEF Backed, Provenance
  <2>5. PICK c \in Claims : c = ClaimOf(run)
    BY <2>2, <2>3, <2>4 DEF Backed, RunsBacked
  <2>6. /\ c.spec = target[k].spec
        /\ c.version = runs[target[k].policy_run_id].source_table_version
        /\ c.approved_by = runs[target[k].policy_run_id].approved_by
    BY <2>3, <2>4, <2>5 DEF ClaimOf
  <2>7. Declared[c.spec].use_tier # 3
    BY <2>6
  <2>8. PICK p \in Plans :
            /\ p.report # None
            /\ p.report.snapshot = c.version
            /\ p.report.scores.spec = c.spec
            /\ p.report.scores.population = Preflight(p.report.snapshot).population
            /\ \A f \in Fields, m \in {"precision", "recall"} :
                 \A g \in Considered(p.report.scores, Declared[c.spec].policy[f]) :
                     LET interval == p.report.scores.groups[f][g][m]
                     IN  interval # None /\ interval.lower >= Declared[c.spec].policy[f].required
    BY <2>7, ClaimGoverned, Zenon
  <2>9. \A f \in Fields, m \in {"precision", "recall"} :
          \A g \in Considered(p.report.scores, Declared[target[k].spec].policy[f]) :
              LET interval == p.report.scores.groups[f][g][m]
              IN  /\ interval # None
                  /\ interval.lower >= Declared[target[k].spec].policy[f].required
    BY <2>6, <2>8, Zenon
  <2>10. Declared[target[k].spec].use_tier = 1 => runs[target[k].policy_run_id].approved_by # None
    BY <2>6, <2>7, ClaimGoverned
  <2> QED
    BY <2>6, <2>8, <2>9, <2>10, Zenon
<1> QED
  BY <1>1, AlwaysBacked, PTL

\* What a job pays for stays within the ceiling of its spec.
THEOREM SpendBounded == Spec => []SpendWithinCeiling
<1>1. Backed => SpendWithinCeiling
  <2> SUFFICES ASSUME Backed, NEW j \in Jobs, job[j].plan # None
               PROVE  /\ job[j].stage = "execute"
                            => Cardinality(Pending(j)) <= Declared[SpecOf(j)].ceiling
                      /\ Cardinality(job[j].pending) <= Declared[SpecOf(j)].ceiling
    BY DEF SpendWithinCeiling
  <2>1. job[j].plan \in AuthorisedPlans
    BY DEF Backed, JobsBacked
  <2>2. Cardinality(InSource(j)) <= Declared[SpecOf(j)].ceiling
        /\ Declared[SpecOf(j)].ceiling \in Nat
    BY <2>1, PlanIsFor, DeclaredAssumption DEF InSource, SpecOf, VersionOf, Declaration
  <2>3. IsFiniteSet(InSource(j))
    BY KeysAssumption, FS_Subset DEF InSource, Rows
  <2>4. \A S \in SUBSET InSource(j) : Cardinality(S) <= Declared[SpecOf(j)].ceiling
    <3> TAKE S \in SUBSET InSource(j)
    <3>1. IsFiniteSet(S) /\ Cardinality(S) <= Cardinality(InSource(j))
      BY <2>3, FS_Subset
    <3>2. Cardinality(S) \in Nat /\ Cardinality(InSource(j)) \in Nat
      BY <2>3, <3>1, FS_CardinalityType
    <3> QED
      BY <2>2, <3>1, <3>2
  <2>5. Pending(j) \in SUBSET InSource(j) /\ job[j].pending \in SUBSET InSource(j)
    BY DEF Pending, Backed, JobsBacked
  <2> QED
    BY <2>4, <2>5
<1> QED
  BY <1>1, AlwaysBacked, PTL

-----------------------------------------------------------------------------
(* The order of rows *)

\* Rows are ordered by the release that wrote them, then by the version it read.
AtLeast(row, sequence, version) ==
    \/ row.release_sequence > sequence
    \/ row.release_sequence = sequence /\ row.source_version >= version

\* The step leaves the row of k alone or restamps it: its text stays, and its
\* release is not lowered.
Restamped(k) ==
    IF target[k] = None THEN target'[k] = None
    ELSE /\ target'[k] # None
         /\ target'[k].text = target[k].text
         /\ target'[k].inference = target[k].inference
         /\ target'[k].source_version = target[k].source_version
         /\ target'[k].release_sequence >= target[k].release_sequence

\* Only the MERGE of a job lands rows; every other statement at most restamps them,
LEMMA RowsRestamped ==
    ASSUME Backed, [Next]_vars, ~ \E j \in Jobs : Execute(j) \/ Merge(j)
    PROVE  (\A k \in Keys : Restamped(k)) /\ UNCHANGED <<landings, completed>>
<1>1. TypeOK
  BY DEF Backed
<1>2. \A k \in Keys : target[k] # None => target[k] \in Row /\ target[k].release_sequence \in Nat
  BY <1>1 DEF TypeOK, Row
<1>3. ASSUME NEW j \in Jobs, ResyncStrata(j), NEW k \in Keys PROVE Restamped(k)
  <2>1. CASE k \notin StaleLabels(j)
    <3>1. target'[k] = target[k]
      BY <1>3, <2>1 DEF ResyncStrata
    <3> QED
      BY <1>2, <3>1 DEF Restamped
  <2>2. CASE k \in StaleLabels(j)
    <3>1. target[k] # None /\ target[k] \in Row
      BY <1>2, <2>2 DEF StaleLabels
    <3>2. target'[k] = [target[k] EXCEPT !.label = SourceRow(j, k).label,
                                         !.strata_version = VersionOf(j)]
      BY <1>3, <2>2 DEF ResyncStrata
    <3>3. target'[k] # None
      <4>1. TypeOK' /\ job[j].plan \in AuthorisedPlans
        BY <1>3, TypeStep DEF Backed, ResyncStrata, JobsBacked
      <4>2. LandedRow(j, k) \in Row
        BY <2>2, <4>1, LandedRowTyped DEF StaleLabels
      <4>3. SourceRow(j, k).label \in Strata /\ VersionOf(j) \in Versions
        BY <4>2 DEF LandedRow, Row
      <4>4. target'[k] \in Row
        BY <3>1, <3>2, <4>3 DEF Row
      <4> QED
        BY <4>4, NoneAssumption
    <3>4. /\ target'[k].text = target[k].text
          /\ target'[k].inference = target[k].inference
          /\ target'[k].source_version = target[k].source_version
          /\ target'[k].release_sequence = target[k].release_sequence
      BY <3>1, <3>2 DEF Row
    <3> QED
      BY <1>2, <3>1, <3>3, <3>4 DEF Restamped
  <2> QED
    BY <2>1, <2>2
<1>4. ASSUME NEW j \in Jobs, ResyncPolicy(j), NEW k \in Keys PROVE Restamped(k)
  <2>1. CASE k \notin OlderPolicy(j)
    <3>1. target'[k] = target[k]
      BY <1>4, <2>1 DEF ResyncPolicy
    <3> QED
      BY <1>2, <3>1 DEF Restamped
  <2>2. CASE k \in OlderPolicy(j)
    <3>1. /\ target[k] # None /\ target[k] \in Row
          /\ target[k].release_sequence <= SequenceOf(j)
      BY <1>2, <2>2 DEF OlderPolicy
    <3>2. target'[k] = [target[k] EXCEPT !.spec = SpecOf(j), !.release_sequence = SequenceOf(j),
                                         !.policy_run_id = RunIdOf[j]]
      BY <1>4, <2>2 DEF ResyncPolicy
    <3>3. target'[k] # None
      <4>1. job[j].plan \in AuthorisedPlans
        BY <1>4 DEF Backed, ResyncPolicy, JobsBacked
      <4>2. LandedRow(j, k) \in Row
        BY <2>2, <4>1, LandedRowTyped DEF OlderPolicy
      <4>3. SpecOf(j) \in Specs /\ SequenceOf(j) \in Nat /\ RunIdOf[j] \in RunIds
        BY <4>2 DEF LandedRow, Row
      <4>4. target'[k] \in Row
        BY <3>1, <3>2, <4>3 DEF Row
      <4> QED
        BY <4>4, NoneAssumption
    <3>4. /\ target'[k].text = target[k].text
          /\ target'[k].inference = target[k].inference
          /\ target'[k].source_version = target[k].source_version
          /\ target'[k].release_sequence = SequenceOf(j)
      BY <3>1, <3>2 DEF Row
    <3>5. target'[k].release_sequence >= target[k].release_sequence
      BY <1>2, <3>1, <3>4 DEF Restamped
    <3> QED
      BY <3>1, <3>3, <3>4, <3>5 DEF Restamped
  <2> QED
    BY <2>1, <2>2
<1>5. ASSUME UNCHANGED target, NEW k \in Keys PROVE Restamped(k)
  <2>1. target[k] # None => target[k].release_sequence >= target[k].release_sequence
    BY <1>2
  <2> QED
    BY <1>5, <2>1 DEF Restamped
<1>6. UNCHANGED <<landings, completed>>
  BY DEF Next, Reserve, CheckRunId, ResyncStrata, ResyncPolicy, Score, ReadHistory, Finalize, Confirm,
     Restart, vars, history
<1> QED
  BY <1>3, <1>4, <1>5, <1>6
  DEF Next, Reserve, CheckRunId, Score, ReadHistory, Finalize, Confirm, Restart, vars, table

\* and what the MERGE of a job lands are rows of its source that are not above it.
LEMMA RowsLanded ==
    ASSUME Backed, NEW j \in Jobs, Execute(j) \/ Merge(j)
    PROVE  /\ job[j].plan \in AuthorisedPlans
           /\ job[j].stage \in Writing
           /\ \E scored \in SUBSET InSource(j) :
                /\ Lands(j, scored)
                /\ \/ job[j].stage = "execute" /\ scored = Pending(j)
                   \/ job[j].stage = "merge" /\ scored = job[j].pending
<1>1. job[j].stage \in {"execute", "merge"}
  BY DEF Execute, Merge
<1>2. job[j].stage \in Writing /\ job[j].plan \in AuthorisedPlans
  BY <1>1 DEF Writing, Backed, JobsBacked
<1>3. CASE Execute(j)
  BY <1>2, <1>3 DEF Execute, Pending
<1>4. CASE Merge(j)
  BY <1>2, <1>4 DEF Merge, Backed, JobsBacked
<1> QED
  BY <1>2, <1>3, <1>4

\* The row of k after a job's MERGE.
LEMMA RowAfterLanding ==
    ASSUME Backed, NEW j \in Jobs, job[j].plan \in AuthorisedPlans,
           NEW scored \in SUBSET InSource(j), Lands(j, scored), NEW k \in Keys
    PROVE  \/ /\ k \in scored
              /\ target[k] = None \/ NotLowered(j, target[k])
              /\ target'[k] = LandedRow(j, k)
              /\ target'[k] \in Row /\ target'[k] # None
              /\ landings'[j][k] = landings[j][k] + 1
           \/ /\ k \notin scored \/ (target[k] # None /\ ~NotLowered(j, target[k]))
              /\ target'[k] = target[k]
              /\ landings'[j][k] = landings[j][k]
<1>1. landings \in [Jobs -> [Keys -> Nat]]
  BY DEF Backed, TypeOK
<1>2. k \in scored => LandedRow(j, k) \in Row /\ LandedRow(j, k) # None
  BY LandedRowTyped, NoneAssumption
<1> QED
  BY <1>1, <1>2 DEF Lands

\* A job that waits for its merge did so before, or has just scored its pending rows.
LEMMA BecomesScored ==
    ASSUME TypeOK, [Next]_vars, NEW j \in Jobs, job'[j].stage = "merge"
    PROVE  job'[j] = job[j] \/ Score(j)
<1>1. job \in [Jobs -> Job]
  BY DEF TypeOK
<1>2. ASSUME NEW i \in Jobs,
             \/ Reserve(i) \/ CheckRunId(i) \/ ResyncStrata(i) \/ ResyncPolicy(i)
             \/ Execute(i) \/ Score(i) \/ Merge(i)
             \/ ReadHistory(i) \/ Finalize(i) \/ Confirm(i) \/ Restart(i)
      PROVE  (i # j => job'[j] = job[j]) /\ (i = j => Score(j))
  <2>1. i # j => job'[j] = job[j]
    BY <1>1, <1>2
    DEF Reserve, CheckRunId, ResyncStrata, ResyncPolicy, Execute, Score, Merge, Lands, ReadHistory,
        Finalize, Confirm, Restart, GoesOn
  <2>2. Reserve(i) => job'[i].stage = "check"
    BY <1>1 DEF Reserve, Job
  <2>3. CheckRunId(i) \/ ResyncStrata(i) \/ ResyncPolicy(i) => job'[i].stage # "merge"
    BY <1>1 DEF CheckRunId, ResyncStrata, ResyncPolicy, GoesOn, Job
  <2>4. Execute(i) \/ Merge(i) => job'[i].stage = "history"
    BY <1>1 DEF Execute, Merge, Lands, Job
  <2>5. ReadHistory(i) \/ Finalize(i) \/ Confirm(i) => job'[i].stage # "merge"
    BY <1>1 DEF ReadHistory, Finalize, Confirm, GoesOn, Job
  <2>6. Restart(i) => job'[i].stage = "idle"
    BY <1>1 DEF Restart, Idle
  <2> QED
    BY <1>2, <2>1, <2>2, <2>3, <2>4, <2>5, <2>6
<1>3. CASE UNCHANGED vars
  BY <1>3 DEF vars
<1> QED
  BY <1>2, <1>3 DEF Next

\* No statement of any job lowers a row.
OrderKept ==
    \A k \in Keys, sequence \in Nat, version \in Versions :
        target[k] # None /\ AtLeast(target[k], sequence, version)
            => target'[k] # None /\ AtLeast(target'[k], sequence, version)

\* Landing is refused below the row, and restamping raises it.
LEMMA OrderStep == Backed /\ [Next]_vars => OrderKept
<1> SUFFICES ASSUME Backed, [Next]_vars, NEW k \in Keys, NEW sequence \in Nat,
                    NEW version \in Versions, target[k] # None,
                    AtLeast(target[k], sequence, version)
             PROVE  target'[k] # None /\ AtLeast(target'[k], sequence, version)
  BY DEF OrderKept
<1>1. /\ target[k].release_sequence \in Nat /\ target[k].source_version \in Nat
      /\ version \in Nat
  BY VersionsAssumption DEF Backed, TypeOK, Row
<1>2. CASE \E j \in Jobs : Execute(j) \/ Merge(j)
  <2>1. PICK j \in Jobs : Execute(j) \/ Merge(j)
    BY <1>2
  <2>2. PICK scored \in SUBSET InSource(j) : Lands(j, scored) /\ job[j].plan \in AuthorisedPlans
    BY <2>1, RowsLanded
  <2>3. CASE target'[k] = target[k]
    BY <2>3
  <2>4. CASE /\ k \in scored /\ NotLowered(j, target[k])
             /\ target'[k] = LandedRow(j, k) /\ target'[k] \in Row /\ target'[k] # None
    <3>1. /\ target'[k].release_sequence = SequenceOf(j) /\ target'[k].source_version = VersionOf(j)
      BY <2>4 DEF LandedRow
    <3>2. SequenceOf(j) \in Nat /\ VersionOf(j) \in Nat
      BY <2>4, <3>1, VersionsAssumption DEF Row
    <3> QED
      BY <1>1, <2>4, <3>1, <3>2 DEF AtLeast, NotLowered
  <2> QED
    BY <2>2, <2>3, <2>4, RowAfterLanding
<1>3. CASE ~ \E j \in Jobs : Execute(j) \/ Merge(j)
  <2>1. Restamped(k)
    BY <1>3, RowsRestamped
  <2>2. /\ target'[k] # None
        /\ target'[k].source_version = target[k].source_version
        /\ target'[k].release_sequence >= target[k].release_sequence
    BY <2>1 DEF Restamped
  <2>3. target'[k].release_sequence \in Nat
    <3>1. TypeOK'
      BY TypeStep DEF Backed
    <3> QED
      BY <2>2, <3>1 DEF TypeOK, Row
  <2> QED
    BY <1>1, <2>2, <2>3 DEF AtLeast
<1> QED
  BY <1>2, <1>3

\* Whatever runs overlap, resume late or restart, the pair of release and source version
\* of a row never goes down, and no row is taken out.
THEOREM RowsNeverLowered == Spec => [][OrderKept]_vars
<1>1. Backed /\ [Next]_vars => [OrderKept]_vars
  BY OrderStep
<1> QED
  BY <1>1, AlwaysBacked, PTL DEF Spec

-----------------------------------------------------------------------------
(* Restarts *)

\* The specs number the releases: what the model is asked is a matter of the release.
\* A spec has the sequence "incremented whenever any part of the release changes",
\* which its author keeps and the gate does not see.
ReleasesCounted ==
    \A s, t \in Specs :
        Declared[s].release_sequence = Declared[t].release_sequence
            => Declared[s].inference = Declared[t].inference

\* A row at a job's own release and version was produced by its inference from its text.
LEMMA DoneAtOwn ==
    ASSUME Backed, ReleasesCounted, NEW j \in Jobs, job[j].stage \in Writing,
           NEW k \in InSource(j), target[k] # None,
           AtLeast(target[k], SequenceOf(j), VersionOf(j))
    PROVE  Done(j, target[k], k)
<1>1. k \in Keys /\ target[k] \in Row
  BY DEF InSource, Rows, Backed, TypeOK
<1>2. job[j].plan \in AuthorisedPlans
  BY DEF Backed, JobsBacked, Writing
<1>3. SequenceOf(j) \in Nat /\ VersionOf(j) \in Nat /\ SpecOf(j) \in Specs
  BY <1>2, PlanIsFor, DeclaredAssumption, VersionsAssumption
  DEF SequenceOf, VersionOf, SpecOf, Declaration
<1>4. target[k].release_sequence \in Nat /\ target[k].source_version \in Nat
  BY <1>1, VersionsAssumption DEF Row
<1>5. CASE target[k].release_sequence > SequenceOf(j)
           \/ (target[k].release_sequence = SequenceOf(j) /\ target[k].source_version > VersionOf(j))
  BY <1>5 DEF Done
<1>6. CASE target[k].release_sequence = SequenceOf(j) /\ target[k].source_version = VersionOf(j)
  <2> DEFINE policy == runs[target[k].policy_run_id]
  <2>1. /\ Source[target[k].source_version][k].text = target[k].text
        /\ policy # None
        /\ Declared[policy.spec].release_sequence = target[k].release_sequence
        /\ Declared[policy.spec].inference = target[k].inference
    BY <1>1 DEF Backed, Provenance
  <2>2. policy.spec \in Specs
    BY <1>1, <2>1 DEF Backed, TypeOK, Row, Record
  <2>3. target[k].inference = InferenceOf(j)
    BY <1>3, <1>6, <2>1, <2>2 DEF ReleasesCounted, SequenceOf, InferenceOf
  <2> QED
    BY <1>6, <2>1, <2>3 DEF Done, SourceRow
<1> QED
  BY <1>3, <1>4, <1>5, <1>6 DEF AtLeast

\* A key that a job has landed is at or above the record of its run id; what a job
\* has scored and not merged it has not landed.
LandedBefore ==
    \A j \in Jobs, k \in Keys :
        /\ landings[j][k] # 0 =>
               /\ landings[j][k] = 1
               /\ runs[RunIdOf[j]] # None
               /\ target[k] # None
               /\ AtLeast(target[k], Declared[runs[RunIdOf[j]].spec].release_sequence,
                          runs[RunIdOf[j]].source_table_version)
        /\ job[j].stage = "merge" /\ k \in job[j].pending => landings[j][k] = 0

\* What a job finds pending it has not landed.
LEMMA PendingNotLanded ==
    ASSUME Backed, ReleasesCounted, LandedBefore, NEW j \in Jobs, job[j].stage = "execute",
           NEW k \in Pending(j)
    PROVE  landings[j][k] = 0
<1>1. k \in InSource(j) /\ k \in Keys
  BY DEF Pending, InSource, Rows
<1>2. job[j].stage \in Writing
  BY DEF Writing
<1> SUFFICES ASSUME landings[j][k] # 0 PROVE FALSE
  OBVIOUS
<1>3. /\ target[k] # None
      /\ AtLeast(target[k], Declared[runs[RunIdOf[j]].spec].release_sequence,
                 runs[RunIdOf[j]].source_table_version)
  BY <1>1 DEF LandedBefore
<1>4. runs[RunIdOf[j]].spec = SpecOf(j) /\ runs[RunIdOf[j]].source_table_version = VersionOf(j)
  BY <1>2 DEF Backed, JobsBacked
<1>5. Done(j, target[k], k)
  BY <1>1, <1>2, <1>3, <1>4, DoneAtOwn DEF SequenceOf
<1> QED
  BY <1>3, <1>5 DEF Pending

\* A restarted job finds what it has landed done, since its record holds it to its plan.
LEMMA LandedBeforeStep ==
    ReleasesCounted /\ Backed /\ LandedBefore /\ [Next]_vars => LandedBefore'
<1> SUFFICES ASSUME ReleasesCounted, Backed, LandedBefore, [Next]_vars,
                    NEW j \in Jobs, NEW k \in Keys
             PROVE  /\ landings'[j][k] # 0 =>
                           /\ landings'[j][k] = 1
                           /\ runs'[RunIdOf[j]] # None
                           /\ target'[k] # None
                           /\ AtLeast(target'[k], Declared[runs'[RunIdOf[j]].spec].release_sequence,
                                      runs'[RunIdOf[j]].source_table_version)
                    /\ job'[j].stage = "merge" /\ k \in job'[j].pending => landings'[j][k] = 0
  BY DEF LandedBefore
<1>1. TypeOK /\ JobsBacked /\ RecordsKept /\ OrderKept
  BY RecordsKeptStep, OrderStep DEF Backed
<1>2. RunIdOf[j] \in RunIds /\ landings[j][k] \in Nat
  BY <1>1, RunIdAssumption DEF TypeOK
<1>3. ASSUME landings[j][k] # 0
      PROVE  /\ landings[j][k] = 1
             /\ runs'[RunIdOf[j]] # None
             /\ target'[k] # None
             /\ AtLeast(target'[k], Declared[runs'[RunIdOf[j]].spec].release_sequence,
                        runs'[RunIdOf[j]].source_table_version)
  <2>1. /\ landings[j][k] = 1
        /\ runs[RunIdOf[j]] # None
        /\ target[k] # None
        /\ AtLeast(target[k], Declared[runs[RunIdOf[j]].spec].release_sequence,
                   runs[RunIdOf[j]].source_table_version)
    BY <1>3 DEF LandedBefore
  <2>2. runs[RunIdOf[j]] \in Record
    BY <1>1, <1>2, <2>1 DEF TypeOK
  <2>3. /\ Declared[runs[RunIdOf[j]].spec].release_sequence \in Nat
        /\ runs[RunIdOf[j]].source_table_version \in Versions
    BY <2>2, DeclaredAssumption DEF Record, Declaration
  <2>4. /\ runs'[RunIdOf[j]] # None
        /\ runs'[RunIdOf[j]].spec = runs[RunIdOf[j]].spec
        /\ runs'[RunIdOf[j]].source_table_version = runs[RunIdOf[j]].source_table_version
    BY <1>1, <1>2, <2>1 DEF RecordsKept
  <2>5. target'[k] # None
        /\ AtLeast(target'[k], Declared[runs[RunIdOf[j]].spec].release_sequence,
                   runs[RunIdOf[j]].source_table_version)
    BY <1>1, <2>1, <2>3 DEF OrderKept
  <2> QED
    BY <2>1, <2>4, <2>5
<1>4. ASSUME NEW i \in Jobs, Execute(i) \/ Merge(i)
      PROVE  /\ landings'[j][k] # 0 =>
                    /\ landings'[j][k] = 1
                    /\ runs'[RunIdOf[j]] # None
                    /\ target'[k] # None
                    /\ AtLeast(target'[k], Declared[runs'[RunIdOf[j]].spec].release_sequence,
                               runs'[RunIdOf[j]].source_table_version)
             /\ job'[j].stage = "merge" /\ k \in job'[j].pending => landings'[j][k] = 0
  <2>1. /\ job[i].plan \in AuthorisedPlans
        /\ job[i].stage \in Writing
    BY <1>4, RowsLanded
  <2>2. PICK scored \in SUBSET InSource(i) :
                /\ Lands(i, scored)
                /\ \/ job[i].stage = "execute" /\ scored = Pending(i)
                   \/ job[i].stage = "merge" /\ scored = job[i].pending
    BY <1>4, RowsLanded
  <2>3. job'[i].stage = "history" /\ \A h \in Jobs : h # i => job'[h] = job[h]
    BY <1>1, <2>2 DEF Lands, TypeOK, Job
  <2>4. CASE j # i
    <3>1. landings'[j][k] = landings[j][k] /\ job'[j] = job[j]
      BY <1>1, <2>2, <2>3, <2>4 DEF Lands, TypeOK
    <3> QED
      BY <1>3, <3>1 DEF LandedBefore
  <2>5. CASE j = i
    <3>1. CASE landings'[j][k] = landings[j][k]
      BY <1>3, <2>3, <2>5, <3>1
    <3>2. CASE /\ k \in scored
               /\ target'[k] = LandedRow(j, k)
               /\ target'[k] # None
               /\ landings'[j][k] = landings[j][k] + 1
      <4>1. landings[j][k] = 0
        <5>1. CASE job[j].stage = "execute" /\ scored = Pending(j)
          BY <3>2, <5>1, PendingNotLanded
        <5>2. CASE job[j].stage = "merge" /\ scored = job[j].pending
          BY <3>2, <5>2 DEF LandedBefore
        <5> QED
          BY <2>2, <2>5, <5>1, <5>2
      <4>2. /\ runs[RunIdOf[j]] # None
            /\ runs[RunIdOf[j]].spec = SpecOf(j)
            /\ runs[RunIdOf[j]].source_table_version = VersionOf(j)
        BY <1>1, <2>1, <2>5 DEF JobsBacked, Writing
      <4>3. /\ runs'[RunIdOf[j]] # None
            /\ runs'[RunIdOf[j]].spec = SpecOf(j)
            /\ runs'[RunIdOf[j]].source_table_version = VersionOf(j)
        BY <1>1, <1>2, <4>2 DEF RecordsKept
      <4>4. VersionOf(j) \in Nat
        BY <2>1, <2>5, PlanIsFor, VersionsAssumption DEF VersionOf
      <4>5. AtLeast(target'[k], SequenceOf(j), VersionOf(j))
        BY <3>2, <4>4 DEF AtLeast, LandedRow
      <4>6. landings'[j][k] = 1
        BY <3>2, <4>1
      <4> QED
        BY <2>3, <2>5, <3>2, <4>3, <4>5, <4>6 DEF SequenceOf
    <3> QED
      BY <2>1, <2>2, <2>5, <3>1, <3>2, RowAfterLanding
  <2> QED
    BY <2>4, <2>5
<1>5. CASE ~ \E i \in Jobs : Execute(i) \/ Merge(i)
  <2>1. UNCHANGED <<landings, completed>>
    BY <1>5, RowsRestamped
  <2>2. ASSUME job'[j].stage = "merge", k \in job'[j].pending PROVE landings[j][k] = 0
    <3>1. CASE job'[j] = job[j]
      BY <2>2, <3>1 DEF LandedBefore
    <3>2. CASE Score(j)
      <4>1. job[j].stage = "execute" /\ job'[j].pending = Pending(j)
        BY <1>1, <3>2 DEF Score, TypeOK, Job
      <4> QED
        BY <2>2, <4>1, PendingNotLanded
    <3> QED
      BY <1>1, <1>5, <2>2, <3>1, <3>2, BecomesScored
  <2> QED
    BY <1>3, <2>1, <2>2
<1> QED
  BY <1>4, <1>5

\* Where the sequence counts releases, a job that is stopped and started again, under any
\* plan and beside any other, pays for no row twice.
THEOREM KeysLandOnce == ReleasesCounted => (Spec => []LandsOnce)
<1> SUFFICES ASSUME ReleasesCounted PROVE Spec => []LandsOnce
  OBVIOUS
<1>1. Init => LandedBefore
  BY DEF Init, LandedBefore, Idle
<1>2. Backed /\ LandedBefore /\ [Next]_vars => LandedBefore'
  BY LandedBeforeStep
<1>3. LandedBefore => LandsOnce
  BY DEF LandedBefore, LandsOnce
<1> QED
  BY <1>1, <1>2, <1>3, AlwaysBacked, PTL DEF Spec

-----------------------------------------------------------------------------
(* Delayed runs *)

\* A release that changes what the model is asked has a sequence of its own, and no
\* other release asks the same: judgment is not released alone, nor a prompt restored.
EveryReleaseInfers ==
    \A s, t \in Specs :
        Declared[s].inference = Declared[t].inference
            => Declared[s].release_sequence = Declared[t].release_sequence

\* A text that a key no longer has does not come back.
TextsStayGone ==
    \A k \in Keys, u, v, w \in Versions :
        /\ u <= v /\ v <= w
        /\ Source[u][k] # None /\ Source[v][k] # None /\ Source[w][k] # None
        /\ Source[u][k].text = Source[w][k].text
        => Source[v][k].text = Source[u][k].text

\* What NoRollback asks of the row of a key, for a run of spec s on version v.
Stands(s, v, k, row) ==
    \/ row.release_sequence > Declared[s].release_sequence
    \/ row.release_sequence = Declared[s].release_sequence /\ row.source_version >= v
    \/ /\ row.inference = Declared[s].inference
       /\ \E u \in Versions : u >= v /\ Source[u][k] # None /\ row.text = Source[u][k].text

\* It stands for the rows of the runs that are over, and for the rows that a job has
\* found done when it has scored the others.
RowsStand ==
    /\ \A c \in completed : \A k \in Rows(c[2]) :
           target[k] # None /\ Stands(c[1], c[2], k, target[k])
    /\ \A j \in Jobs : job[j].stage = "merge" =>
           \A k \in InSource(j) \ job[j].pending :
               target[k] # None /\ Stands(SpecOf(j), VersionOf(j), k, target[k])

\* The release of a row is one with its inference.
LEMMA RowsRelease ==
    ASSUME Backed, NEW k \in Keys, target[k] # None
    PROVE  /\ target[k] \in Row
           /\ target[k].release_sequence \in Nat
           /\ target[k].source_version \in Versions /\ target[k].source_version \in Nat
           /\ Source[target[k].source_version][k] # None
           /\ Source[target[k].source_version][k].text = target[k].text
           /\ \E s \in Specs : /\ Declared[s].release_sequence = target[k].release_sequence
                               /\ Declared[s].inference = target[k].inference
<1>1. target[k] \in Row
  BY DEF Backed, TypeOK
<1> DEFINE policy == runs[target[k].policy_run_id]
<1>2. /\ Source[target[k].source_version][k] # None
      /\ Source[target[k].source_version][k].text = target[k].text
      /\ policy # None
      /\ Declared[policy.spec].release_sequence = target[k].release_sequence
      /\ Declared[policy.spec].inference = target[k].inference
  BY DEF Backed, Provenance
<1>3. policy.spec \in Specs
  BY <1>1, <1>2 DEF Backed, TypeOK, Row, Record
<1> QED
  BY <1>1, <1>2, <1>3, VersionsAssumption DEF Row

\* A row that is landed over one that stands, stands.
LEMMA LandedStands ==
    ASSUME ReleasesCounted, EveryReleaseInfers, TextsStayGone, Backed,
           NEW s \in Specs, NEW v \in Versions, NEW k \in Keys, target[k] # None,
           Stands(s, v, k, target[k]),
           NEW j \in Jobs, job[j].plan \in AuthorisedPlans, k \in InSource(j),
           NotLowered(j, target[k])
    PROVE  Stands(s, v, k, LandedRow(j, k))
<1> DEFINE row == target[k]
           new == LandedRow(j, k)
<1>1. /\ row.release_sequence \in Nat /\ row.source_version \in Nat
      /\ row.source_version \in Versions
      /\ Source[row.source_version][k] # None
      /\ Source[row.source_version][k].text = row.text
  BY RowsRelease
<1>2. /\ SpecOf(j) \in Specs /\ VersionOf(j) \in Versions /\ VersionOf(j) \in Nat
      /\ SequenceOf(j) \in Nat
  BY PlanIsFor, DeclaredAssumption, VersionsAssumption DEF SpecOf, VersionOf, SequenceOf, Declaration
<1>3. Declared[s].release_sequence \in Nat /\ v \in Nat
  BY DeclaredAssumption, VersionsAssumption DEF Declaration
<1>4. /\ new.release_sequence = SequenceOf(j)
      /\ new.source_version = VersionOf(j)
      /\ new.inference = InferenceOf(j)
      /\ new.text = Source[VersionOf(j)][k].text
      /\ Source[VersionOf(j)][k] # None
  BY DEF LandedRow, SourceRow, InSource, Rows
<1> HIDE DEF row, new
<1>5. \/ row.release_sequence < SequenceOf(j)
      \/ row.release_sequence = SequenceOf(j) /\ row.source_version <= VersionOf(j)
  BY DEF NotLowered, row
<1>6. CASE AtLeast(row, Declared[s].release_sequence, v)
  BY <1>1, <1>2, <1>3, <1>4, <1>5, <1>6 DEF AtLeast, Stands, new
<1>7. CASE ~ AtLeast(row, Declared[s].release_sequence, v)
  <2>1. row.inference = Declared[s].inference
    BY <1>7 DEF Stands, AtLeast, row
  <2>2. PICK u \in Versions : u >= v /\ Source[u][k] # None /\ row.text = Source[u][k].text
    BY <1>7 DEF Stands, AtLeast, row
  <2>3. row.release_sequence = Declared[s].release_sequence
    BY <2>1, RowsRelease DEF EveryReleaseInfers, row
  <2>4. row.source_version < v
    BY <1>1, <1>3, <1>7, <2>3 DEF AtLeast
  <2>5. CASE SequenceOf(j) > Declared[s].release_sequence \/ VersionOf(j) >= v
    BY <1>1, <1>2, <1>3, <1>4, <1>5, <2>3, <2>5 DEF Stands, new
  <2>6. CASE ~ (SequenceOf(j) > Declared[s].release_sequence \/ VersionOf(j) >= v)
    <3>1. SequenceOf(j) = Declared[s].release_sequence /\ row.source_version <= VersionOf(j)
          /\ VersionOf(j) <= u
      BY <1>1, <1>2, <1>3, <1>5, <2>2, <2>3, <2>6, VersionsAssumption
    <3>2. new.inference = Declared[s].inference
      BY <1>2, <1>4, <3>1 DEF ReleasesCounted, SequenceOf, InferenceOf
    <3>3. Source[VersionOf(j)][k].text = row.text
      BY <1>1, <1>2, <1>4, <2>2, <3>1 DEF TextsStayGone
    <3> QED
      BY <1>4, <2>2, <3>2, <3>3 DEF Stands, new
  <2> QED
    BY <2>5, <2>6
<1> QED
  BY <1>6, <1>7 DEF row, new

\* A row that stands goes on standing, whatever is done to it.
LEMMA StandsOn ==
    ASSUME ReleasesCounted, EveryReleaseInfers, TextsStayGone, Backed, [Next]_vars,
           NEW s \in Specs, NEW v \in Versions, NEW k \in Keys, target[k] # None,
           Stands(s, v, k, target[k])
    PROVE  target'[k] # None /\ Stands(s, v, k, target'[k])
<1>1. CASE \E j \in Jobs : Execute(j) \/ Merge(j)
  <2>1. PICK j \in Jobs : Execute(j) \/ Merge(j)
    BY <1>1
  <2>2. PICK scored \in SUBSET InSource(j) : Lands(j, scored) /\ job[j].plan \in AuthorisedPlans
    BY <2>1, RowsLanded
  <2>3. CASE target'[k] = target[k]
    BY <2>3
  <2>4. CASE k \in scored /\ NotLowered(j, target[k]) /\ target'[k] = LandedRow(j, k)
             /\ target'[k] # None
    BY <2>2, <2>4, LandedStands
  <2> QED
    BY <2>2, <2>3, <2>4, RowAfterLanding
<1>2. CASE ~ \E j \in Jobs : Execute(j) \/ Merge(j)
  <2>1. Restamped(k)
    BY <1>2, RowsRestamped
  <2>2. /\ target'[k] # None
        /\ target'[k].text = target[k].text
        /\ target'[k].inference = target[k].inference
        /\ target'[k].source_version = target[k].source_version
        /\ target'[k].release_sequence >= target[k].release_sequence
    BY <2>1 DEF Restamped
  <2>3. target[k].release_sequence \in Nat /\ Declared[s].release_sequence \in Nat
    BY RowsRelease, DeclaredAssumption DEF Declaration
  <2>4. target'[k].release_sequence \in Nat
    BY <2>2, TypeStep DEF Backed, TypeOK, Row
  <2> QED
    BY <2>2, <2>3, <2>4 DEF Stands
<1> QED
  BY <1>1, <1>2

\* A row that a job has found done stands for it.
LEMMA DoneStands ==
    ASSUME Backed, NEW j \in Jobs, job[j].plan \in AuthorisedPlans, NEW k \in InSource(j),
           target[k] # None, Done(j, target[k], k)
    PROVE  Stands(SpecOf(j), VersionOf(j), k, target[k])
<1>1. VersionOf(j) \in Versions /\ VersionOf(j) \in Nat
  BY PlanIsFor, VersionsAssumption DEF VersionOf
<1>2. Source[VersionOf(j)][k] # None /\ k \in Keys
  BY DEF InSource, Rows
<1>3. target[k].source_version \in Nat
  BY <1>2, RowsRelease
<1> QED
  BY <1>1, <1>2, <1>3 DEF Done, Stands, SequenceOf, InferenceOf, SourceRow

\* After its MERGE every row of its source stands for a job.
LEMMA RowsStandLanded ==
    ASSUME Backed, RowsStand, NEW j \in Jobs, Execute(j) \/ Merge(j), NEW k \in InSource(j)
    PROVE  target'[k] # None /\ Stands(SpecOf(j), VersionOf(j), k, target'[k])
<1>1. job[j].plan \in AuthorisedPlans
  BY RowsLanded
<1>2. PICK scored \in SUBSET InSource(j) :
            /\ Lands(j, scored)
            /\ \/ job[j].stage = "execute" /\ scored = Pending(j)
               \/ job[j].stage = "merge" /\ scored = job[j].pending
  BY RowsLanded
<1>3. k \in Keys /\ VersionOf(j) \in Nat /\ SequenceOf(j) \in Nat
  BY <1>1, PlanIsFor, VersionsAssumption, DeclaredAssumption
  DEF InSource, Rows, VersionOf, SequenceOf, SpecOf, Declaration
<1>4. CASE k \in scored /\ target'[k] = LandedRow(j, k) /\ target'[k] # None
  BY <1>3, <1>4 DEF Stands, LandedRow, SequenceOf
<1>5. CASE k \in scored /\ target[k] # None /\ ~NotLowered(j, target[k]) /\ target'[k] = target[k]
  <2>1. target[k].release_sequence \in Nat /\ target[k].source_version \in Nat
    BY <1>3, <1>5, RowsRelease
  <2> QED
    BY <1>3, <1>5, <2>1 DEF NotLowered, Stands, SequenceOf
<1>6. CASE k \notin scored /\ target'[k] = target[k]
  <2>1. CASE job[j].stage = "execute" /\ scored = Pending(j)
    <3>1. target[k] # None /\ Done(j, target[k], k)
      BY <1>6, <2>1 DEF Pending
    <3> QED
      BY <1>1, <1>6, <3>1, DoneStands
  <2>2. CASE job[j].stage = "merge" /\ scored = job[j].pending
    BY <1>6, <2>2 DEF RowsStand
  <2> QED
    BY <1>2, <2>1, <2>2
<1> QED
  BY <1>1, <1>2, <1>3, <1>4, <1>5, <1>6, RowAfterLanding

\* Rows go on standing, and those of a MERGE stand when it is done.
LEMMA RowsStandStep ==
    /\ ReleasesCounted /\ EveryReleaseInfers /\ TextsStayGone
    /\ Backed /\ RowsStand /\ [Next]_vars
    => RowsStand'
<1> SUFFICES ASSUME ReleasesCounted, EveryReleaseInfers, TextsStayGone, Backed, RowsStand, [Next]_vars
             PROVE  RowsStand'
  OBVIOUS
<1>1. TypeOK /\ JobsBacked /\ job \in [Jobs -> Job]
  BY DEF Backed, TypeOK
<1>2. ASSUME NEW c \in completed, NEW k \in Rows(c[2])
      PROVE  target'[k] # None /\ Stands(c[1], c[2], k, target'[k])
  <2>1. c[1] \in Specs /\ c[2] \in Versions /\ k \in Keys
    BY <1>1 DEF TypeOK, Rows
  <2>2. target[k] # None /\ Stands(c[1], c[2], k, target[k])
    BY DEF RowsStand
  <2> QED
    BY <2>1, <2>2, StandsOn
<1>3. ASSUME NEW c \in completed', c \notin completed, NEW k \in Rows(c[2])
      PROVE  target'[k] # None /\ Stands(c[1], c[2], k, target'[k])
  <2>1. PICK j \in Jobs : Execute(j) \/ Merge(j)
    BY <1>3, RowsRestamped
  <2>2. completed' = completed \cup {<<SpecOf(j), VersionOf(j)>>}
    BY <2>1 DEF Execute, Merge, Lands
  <2>3. c = <<SpecOf(j), VersionOf(j)>>
    BY <1>3, <2>2
  <2> QED
    BY <1>3, <2>1, <2>3, RowsStandLanded DEF InSource
<1>4. ASSUME NEW j \in Jobs, job'[j].stage = "merge", NEW k \in InSource(j)' \ job'[j].pending
      PROVE  target'[k] # None /\ Stands(SpecOf(j)', VersionOf(j)', k, target'[k])
  <2>1. CASE job'[j] = job[j]
    <3>1. job[j].stage = "merge" /\ k \in InSource(j) \ job[j].pending
      BY <1>4, <2>1 DEF InSource, VersionOf
    <3>2. target[k] # None /\ Stands(SpecOf(j), VersionOf(j), k, target[k])
      BY <3>1 DEF RowsStand
    <3>3. SpecOf(j) \in Specs /\ VersionOf(j) \in Versions /\ k \in Keys
      BY <1>1, <3>1, PlanIsFor DEF JobsBacked, SpecOf, VersionOf, InSource, Rows
    <3>4. target'[k] # None /\ Stands(SpecOf(j), VersionOf(j), k, target'[k])
      BY <3>2, <3>3, StandsOn
    <3> QED
      BY <2>1, <3>4 DEF SpecOf, VersionOf
  <2>2. CASE Score(j)
    <3>1. /\ job[j].stage = "execute"
          /\ job'[j].pending = Pending(j) /\ job'[j].plan = job[j].plan
          /\ target' = target
      BY <1>1, <2>2 DEF Score, Job, table
    <3>2. k \in InSource(j) \ Pending(j) /\ SpecOf(j)' = SpecOf(j) /\ VersionOf(j)' = VersionOf(j)
      BY <1>4, <3>1 DEF InSource, SpecOf, VersionOf
    <3>3. target[k] # None /\ Done(j, target[k], k)
      BY <3>2 DEF Pending
    <3>4. job[j].plan \in AuthorisedPlans
      BY <1>1, <3>1 DEF JobsBacked
    <3>5. Stands(SpecOf(j), VersionOf(j), k, target[k])
      BY <3>2, <3>3, <3>4, DoneStands
    <3> QED
      BY <3>1, <3>2, <3>3, <3>5
  <2> QED
    BY <1>1, <1>4, <2>1, <2>2, BecomesScored
<1> QED
  BY <1>2, <1>3, <1>4 DEF RowsStand

\* Where each release asks the model something of its own and texts do not come back,
\* no delayed run takes a row back: the two cycles of one unchanged spec, run over any
\* versions and landing in any order, among them.
THEOREM NothingTakenBack ==
    ReleasesCounted /\ EveryReleaseInfers /\ TextsStayGone => (Spec => []NoRollback)
<1> SUFFICES ASSUME ReleasesCounted, EveryReleaseInfers, TextsStayGone PROVE Spec => []NoRollback
  OBVIOUS
<1>1. Init => RowsStand
  BY DEF Init, RowsStand, Idle
<1>2. Backed /\ RowsStand /\ [Next]_vars => RowsStand'
  BY RowsStandStep
<1>3. RowsStand => NoRollback
  BY DEF RowsStand, NoRollback, Stands
<1> QED
  BY <1>1, <1>2, <1>3, AlwaysBacked, PTL DEF Spec

==============================================================================
