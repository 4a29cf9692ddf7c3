-------------------------- MODULE HubLakebaseProofs --------------------------
(***************************************************************************)
(* What HubLakebase promises, for any number of App instances, threads and *)
(* requests: transactions never deadlock, no INSERT collides, nothing is   *)
(* written from a stale read, an instance serves its own schema only, and  *)
(* each commit is one operation of HubRepository.                          *)
(*                                                                         *)
(* All of it rests on the locks.  A lock is held exclusively by at most    *)
(* one transaction (LocksDisjoint), and Holds says which locks an open     *)
(* transaction has at each of its statements: past the first, the advisory *)
(* locks of its operation or its row.  What a transaction has read is      *)
(* therefore still so at its commit (Knows): whoever could change it needs *)
(* a lock that the transaction holds.                                      *)
(***************************************************************************)
EXTENDS HubLakebase, FiniteSetTheorems, TLAPS

-----------------------------------------------------------------------------
(* The inductive invariant *)

\* Everything the tables hold is of its type.
TablesOK ==
    /\ DOMAIN applications \subseteq AppIds
    /\ applications \in [DOMAIN applications -> Store!Application]
    /\ DOMAIN versions \subseteq VersionIds
    /\ versions \in [DOMAIN versions -> Store!Version]
    /\ DOMAIN evaluations \subseteq EvaluationIds
    /\ evaluations \in [DOMAIN evaluations -> Store!Evaluation]
    /\ DOMAIN promotions \subseteq PromotionIds
    /\ promotions \in [DOMAIN promotions -> Store!Promotion]

\* The fields of a transaction.
Shaped(x) ==
    x = [at |-> x.at, request |-> x.request, exclusive |-> x.exclusive,
         shared |-> x.shared, row |-> x.row, previous |-> x.previous]

Last(op) ==
    CASE op = "register" \/ op \in Creations -> 8
      [] op = "migrate" -> 4
      [] OTHER -> 3

\* A transaction is not open, or at a statement of its operation.
Placed(x) ==
    \/ x = Idle
    \/ /\ x.request \in Requests \cup {Migrate}
       /\ x.at \in 1 .. Last(x.request.op)

TxnOK ==
    /\ txn = [t \in Threads |-> txn[t]]
    /\ \A t \in Threads : Shaped(txn[t]) /\ Placed(txn[t])

TypeOK == TablesOK /\ TxnOK /\ instance = [i \in Instances |-> instance[i]]

\* The unique indexes of versions, and their foreign key.
VersionsOK ==
    /\ \A v, w \in DOMAIN versions : EvidenceOf(versions[v]) = EvidenceOf(versions[w]) => v = w
    /\ \A v, w \in Current : PointerOf(versions[v]) = PointerOf(versions[w]) => v = w
    /\ \A v \in DOMAIN versions : versions[v].application_id \in DOMAIN applications

\* The migrations of the schema have no gap.
AppliedOK == \E n \in Nat : applied = 1 .. n

\* The advisory locks of an operation, in the order they are taken; migrate has one.
First(r) ==
    CASE r.op = "register" -> Lock("application-version", r.id)
      [] r.op = "create_evaluation" -> Lock("evaluation-active", ActiveEvaluationKey(r.row))
      [] r.op = "create_promotion" -> Lock("promotion-active", ActivePromotionKey(r.row))
      [] r.op = "migrate" -> Lock("schema-migration", None)
Second(r) ==
    CASE r.op = "register" -> Lock("application", r.row.application_id)
      [] r.op = "create_evaluation" -> Lock("evaluation", r.id)
      [] r.op = "create_promotion" -> Lock("promotion", r.id)
      [] r.op = "migrate" -> Lock("schema-migration", None)

\* The row an update works on.
OwnRow(r) ==
    Lock(IF r.op = "update_evaluation" THEN "evaluation-row" ELSE "promotion-row", r.id)

\* The advisory lock that whoever adds an index entry holds.
EntryKinds ==
    {"applications_pkey", "application_versions_pkey", "uq_evidence", "uq_current",
     "evaluation_runs_pkey", "uq_active_evaluation", "promotion_requests_pkey",
     "uq_active_promotion", "pg_class"}
Guard(l) ==
    CASE l.kind = "applications_pkey" -> Lock("application", l.key)
      [] l.kind = "application_versions_pkey" -> Lock("application-version", l.key)
      [] l.kind \in {"uq_evidence", "uq_current"} -> Lock("application", l.key[1])
      [] l.kind = "evaluation_runs_pkey" -> Lock("evaluation", l.key)
      [] l.kind = "uq_active_evaluation" -> Lock("evaluation-active", l.key)
      [] l.kind = "promotion_requests_pkey" -> Lock("promotion", l.key)
      [] l.kind = "uq_active_promotion" -> Lock("promotion-active", l.key)
      [] l.kind = "pg_class" -> Lock("schema-migration", None)

\* How far a transaction is, statement by statement (see Statements), so that whoever
\* waits for a lock has not come as far as who holds it; HeldFrom is how far a
\* transaction is that holds a lock of a kind.
Ranks(op) ==
    CASE op = "register" -> <<0, 2, 2, 2, 3, 4, 5, 5>>
      [] op \in Creations -> <<0, 2, 2, 2, 2, 2, 3, 5>>
      [] op = "migrate" -> <<0, 2, 2, 2>>
      [] OTHER -> <<2, 5, 5>>
Rank(x) ==
    IF x.at = 1 /\ x.exclusive # {} THEN 1 ELSE Ranks(x.request.op)[x.at]
HeldFrom(kind) ==
    CASE kind \in {"application-version", "evaluation-active", "promotion-active"} -> 1
      [] kind = "application-row" -> 3
      [] kind \in {"version-row", "evaluation-row", "promotion-row"} -> 5
      [] OTHER -> 2

\* The locks of an open transaction.
Holds(x) ==
    LET r == x.request
    IN  /\ r.op \in Updates =>
               (x.at = 1 /\ x.exclusive = {}) \/ (x.at > 1 /\ OwnRow(r) \in x.exclusive)
        /\ r.op \notin Updates =>
               \/ x.at = 1 /\ x.exclusive = {}
               \/ x.at = 1 /\ r.op # "migrate" /\ x.exclusive = {First(r)}
               \/ x.at > 1 /\ {First(r), Second(r)} \subseteq x.exclusive
        /\ \A l \in x.exclusive : l.kind \in EntryKinds => Guard(l) \in x.exclusive
        /\ \A l \in x.shared : l.kind \in {"application-row", "version-row"}
        /\ \A l \in x.exclusive \cup x.shared : HeldFrom(l.kind) <= Rank(x)

LocksDisjoint ==
    \A t, u \in Threads : t # u => txn[t].exclusive \cap txn[u].exclusive = {}

\* What a registration has read: nothing of its evidence and its identifier, the
\* application, the repositories of its versions, and the version it supersedes.
RegistrationKnows(x) ==
    LET v == x.request.row
    IN  /\ x.at > 2 => \A w \in DOMAIN versions : EvidenceOf(versions[w]) # EvidenceOf(v)
        /\ x.at > 3 => x.request.id \notin DOMAIN versions
        /\ x.at > 4 => x.row = StoredApplication(v.application_id)
        /\ x.at > 5 /\ x.row # None => RepositoryAllowed(v)
        /\ x.at > 6 => {x.previous} \ {None} = CurrentOf(v)

\* What a creation has read: its identifier is unused, its version is stored, and
\* nothing like it is active.
VersionStored(r) ==
    /\ r.row.application_id \in DOMAIN applications
    /\ r.row.application_version_id \in DOMAIN versions
    /\ PointerOf(versions[r.row.application_version_id])
           = <<r.row.application_id, IF r.op = "create_evaluation" THEN r.row.environment
                                     ELSE r.row.source_environment>>

NothingActive(r) ==
    IF r.op = "create_evaluation"
    THEN \A e \in DOMAIN evaluations :
             evaluations[e].status \in Store!ActiveEvaluation
                 => ActiveEvaluationKey(evaluations[e]) # ActiveEvaluationKey(r.row)
    ELSE \A p \in DOMAIN promotions :
             promotions[p].status \in Store!ActivePromotion
                 => ActivePromotionKey(promotions[p]) # ActivePromotionKey(r.row)

CreationKnows(x) ==
    /\ x.at > 2 => x.request.id \notin DOMAIN RowsOf(x.request)
    /\ x.at > 3 => VersionStored(x.request)
    /\ x.at > 4 => NothingActive(x.request)

\* What an update has read: its row, which permits it.
UpdateKnows(x) ==
    x.at > 1 =>
        /\ x.request.id \in DOMAIN RowsOf(x.request)
        /\ x.row = RowsOf(x.request)[x.request.id]
        /\ Permitted(x.request, x.row)

\* What migrate has read: the migrations, all known to its release.
MigrationKnows(t) ==
    txn[t].at > 2 => txn[t].row = applied /\ applied \subseteq 1 .. Release[InstanceOf[t]]

Knows(t) ==
    LET x == txn[t]
    IN  /\ x.request.op = "register" => RegistrationKnows(x)
        /\ x.request.op \in Creations => CreationKnows(x)
        /\ x.request.op \in Updates => UpdateKnows(x)
        /\ x.request.op = "migrate" => MigrationKnows(t)

Locked ==
    /\ TypeOK
    /\ VersionsOK
    /\ AppliedOK
    /\ LocksDisjoint
    /\ \A t \in Threads : txn[t] # Idle => Holds(txn[t]) /\ Knows(t)

-----------------------------------------------------------------------------
(* Locks, requests and statements *)

\* The kind and the key of a lock.
LEMMA LockFields ==
    \A kind, key : Lock(kind, key).kind = kind /\ Lock(kind, key).key = key
BY DEF Lock

\* A request is one of the operations, with a row or an identifier of its table.
LEMMA RequestKinds ==
    ASSUME NEW r \in Requests \cup {Migrate}
    PROVE  /\ r.op \in {"register", "migrate"} \cup Creations \cup Updates
           /\ r.op = "migrate" => r = Migrate
           /\ r.op = "register" => r.id \in VersionIds /\ r.row \in NewVersion
           /\ r.op = "create_evaluation" => r.id \in EvaluationIds /\ r.row \in NewEvaluation
           /\ r.op = "create_promotion" => r.id \in PromotionIds /\ r.row \in NewPromotion
           /\ r.op \in Updates => r.expected \in Expected
           /\ r.op = "update_evaluation" =>
                  /\ r.id \in EvaluationIds
                  /\ r.status \in Store!EvaluationStatus
                  /\ r.run \in JobRunIds \cup {None} /\ r.summary \in Summaries \cup {None}
           /\ r.op \in Updates \ {"update_evaluation"} =>
                  r.id \in PromotionIds /\ r.actor \in Principals
           /\ r.op = "approve_promotion" => r.snapshot \in Store!Snapshot \cup {None}
           /\ r.op = "review_promotion" => r.status \in {"REJECTED", "CHANGES_REQUESTED"}
           /\ r.op = "update_promotion" =>
                  /\ r.status \in Store!PromotionStatus /\ r.run \in JobRunIds \cup {None}
                  /\ r.reviewer \in Principals \cup {None}
<1>1. CASE r = Migrate
  BY <1>1 DEF Migrate, Creations, Updates
<1>2. CASE r \in Request
  BY <1>2 DEF Request, Creations, Updates
<1> QED
  BY <1>1, <1>2, RequestsAssumption

\* The operations that are not updates have an advisory lock first.
LEMMA Kinds ==
    ASSUME NEW op \in {"register", "migrate"} \cup Creations \cup Updates
    PROVE  /\ op \in Updates => op # "register" /\ op # "migrate" /\ op \notin Creations
           /\ op \in Creations => op # "register" /\ op # "migrate"
           /\ op \in Updates <=> op \in {"update_evaluation", "approve_promotion",
                                         "review_promotion", "update_promotion"}
           /\ op \in Creations <=> op \in {"create_evaluation", "create_promotion"}
BY DEF Creations, Updates

\* A transaction that is not at "idle" is open, its request is an operation, and its
\* position is the one of the statement.
LEMMA Positions ==
    ASSUME TxnOK, NEW t \in Threads, txn[t] # Idle
    PROVE  LET op == txn[t].request.op
               n == txn[t].at
           IN  /\ txn[t].request \in Requests \cup {Migrate}
               /\ op \in {"register", "migrate"} \cup Creations \cup Updates
               /\ n \in 1 .. Last(op)
               /\ At(t) = Statements(op)[n]
BY RequestKinds DEF TxnOK, Placed, At

\* Only an open transaction is at a statement.
LEMMA AtOpen ==
    ASSUME TxnOK, NEW t \in Threads, At(t) # "idle"
    PROVE  txn[t] # Idle
BY DEF At

\* The statement a transaction is at, by its position.
LEMMA AtNumbers ==
    ASSUME TxnOK, NEW t \in Threads, txn[t] # Idle
    PROVE  LET op == txn[t].request.op
               n == txn[t].at
               s == At(t)
           IN  /\ op \in {"register", "migrate"} \cup Creations \cup Updates
               /\ n \in 1 .. Last(op)
               /\ s = "locks" <=> op \notin Updates /\ n = 1
               /\ s = "replay" <=> op = "register" /\ n = 2
               /\ s = "identifier" <=> (op = "register" /\ n = 3) \/ (op \in Creations /\ n = 2)
               /\ s = "application" <=> op = "register" /\ n = 4
               /\ s = "write-application" <=> op = "register" /\ n = 5
               /\ s = "previous" <=> op = "register" /\ n = 6
               /\ s = "insert-version" <=> op = "register" /\ n = 7
               /\ s = "version" <=> op \in Creations /\ n = 3
               /\ s = "duplicate" <=> op \in Creations /\ n = 4
               /\ s = "insert-row" <=> op \in Creations /\ n = 5
               /\ s = "check-application" <=> op \in Creations /\ n = 6
               /\ s = "check-version" <=> op \in Creations /\ n = 7
               /\ s = "applied" <=> op = "migrate" /\ n = 2
               /\ s = "create-tables" <=> op = "migrate" /\ n = 3
               /\ s = "row" <=> op \in Updates /\ n = 1
               /\ s = "update" <=> op \in Updates /\ n = 2
               /\ s = "commit" <=> n = Last(op)
               /\ s # "idle"
<1> SUFFICES ASSUME NEW op, op = txn[t].request.op, NEW n, n = txn[t].at, NEW s, s = At(t)
             PROVE  /\ op \in {"register", "migrate"} \cup Creations \cup Updates
                    /\ n \in 1 .. Last(op)
                    /\ s = "locks" <=> op \notin Updates /\ n = 1
                    /\ s = "replay" <=> op = "register" /\ n = 2
                    /\ s = "identifier" <=> (op = "register" /\ n = 3) \/ (op \in Creations /\ n = 2)
                    /\ s = "application" <=> op = "register" /\ n = 4
                    /\ s = "write-application" <=> op = "register" /\ n = 5
                    /\ s = "previous" <=> op = "register" /\ n = 6
                    /\ s = "insert-version" <=> op = "register" /\ n = 7
                    /\ s = "version" <=> op \in Creations /\ n = 3
                    /\ s = "duplicate" <=> op \in Creations /\ n = 4
                    /\ s = "insert-row" <=> op \in Creations /\ n = 5
                    /\ s = "check-application" <=> op \in Creations /\ n = 6
                    /\ s = "check-version" <=> op \in Creations /\ n = 7
                    /\ s = "applied" <=> op = "migrate" /\ n = 2
                    /\ s = "create-tables" <=> op = "migrate" /\ n = 3
                    /\ s = "row" <=> op \in Updates /\ n = 1
                    /\ s = "update" <=> op \in Updates /\ n = 2
                    /\ s = "commit" <=> n = Last(op)
                    /\ s # "idle"
  OBVIOUS
<1>5. /\ op \in {"register", "migrate"} \cup Creations \cup Updates
      /\ n \in 1 .. Last(op) /\ s = Statements(op)[n]
  BY Positions
<1>1. CASE op = "register"
  <2>1. Statements(op) = <<"locks", "replay", "identifier", "application",
                           "write-application", "previous", "insert-version", "commit">>
    BY <1>1, <1>5, Kinds DEF Statements
  <2>2. Last(op) = 8 /\ n \in 1 .. 8
    BY <1>1, <1>5, Kinds DEF Last
  <2>3. /\ Statements(op)[1] = "locks"
        /\ Statements(op)[2] = "replay"
        /\ Statements(op)[3] = "identifier"
        /\ Statements(op)[4] = "application"
        /\ Statements(op)[5] = "write-application"
        /\ Statements(op)[6] = "previous"
        /\ Statements(op)[7] = "insert-version"
        /\ Statements(op)[8] = "commit"
    BY <2>1
  <2>4. n = 1 \/ n = 2 \/ n = 3 \/ n = 4 \/ n = 5 \/ n = 6 \/ n = 7 \/ n = 8
    BY <1>5, <2>2
  <2>5. op = "register" /\ op \notin Creations /\ op \notin Updates /\ op # "migrate"
    BY <1>1, <1>5, Kinds
  <2> QED
    BY <1>5, <2>2, <2>3, <2>4, <2>5
<1>2. CASE op \in Creations
  <2>1. Statements(op) = <<"locks", "identifier", "version", "duplicate",
                           "insert-row", "check-application", "check-version", "commit">>
    BY <1>2, <1>5, Kinds DEF Statements
  <2>2. Last(op) = 8 /\ n \in 1 .. 8
    BY <1>2, <1>5, Kinds DEF Last
  <2>3. /\ Statements(op)[1] = "locks"
        /\ Statements(op)[2] = "identifier"
        /\ Statements(op)[3] = "version"
        /\ Statements(op)[4] = "duplicate"
        /\ Statements(op)[5] = "insert-row"
        /\ Statements(op)[6] = "check-application"
        /\ Statements(op)[7] = "check-version"
        /\ Statements(op)[8] = "commit"
    BY <2>1
  <2>4. n = 1 \/ n = 2 \/ n = 3 \/ n = 4 \/ n = 5 \/ n = 6 \/ n = 7 \/ n = 8
    BY <1>5, <2>2
  <2>5. op # "register" /\ op \in Creations /\ op \notin Updates /\ op # "migrate"
    BY <1>2, <1>5, Kinds
  <2> QED
    BY <1>5, <2>2, <2>3, <2>4, <2>5
<1>3. CASE op = "migrate"
  <2>1. Statements(op) = <<"locks", "applied", "create-tables", "commit">>
    BY <1>3, <1>5, Kinds DEF Statements
  <2>2. Last(op) = 4 /\ n \in 1 .. 4
    BY <1>3, <1>5, Kinds DEF Last
  <2>3. /\ Statements(op)[1] = "locks"
        /\ Statements(op)[2] = "applied"
        /\ Statements(op)[3] = "create-tables"
        /\ Statements(op)[4] = "commit"
    BY <2>1
  <2>4. n = 1 \/ n = 2 \/ n = 3 \/ n = 4
    BY <1>5, <2>2
  <2>5. op # "register" /\ op \notin Creations /\ op \notin Updates /\ op = "migrate"
    BY <1>3, <1>5, Kinds
  <2> QED
    BY <1>5, <2>2, <2>3, <2>4, <2>5
<1>4. CASE op \in Updates
  <2>1. Statements(op) = <<"row", "update", "commit">>
    BY <1>4, <1>5, Kinds DEF Statements
  <2>2. Last(op) = 3 /\ n \in 1 .. 3
    BY <1>4, <1>5, Kinds DEF Last
  <2>3. /\ Statements(op)[1] = "row"
        /\ Statements(op)[2] = "update"
        /\ Statements(op)[3] = "commit"
    BY <2>1
  <2>4. n = 1 \/ n = 2 \/ n = 3
    BY <1>5, <2>2
  <2>5. op # "register" /\ op \notin Creations /\ op \in Updates /\ op # "migrate"
    BY <1>4, <1>5, Kinds
  <2> QED
    BY <1>5, <2>2, <2>3, <2>4, <2>5
<1> QED
  BY <1>5, <1>1, <1>2, <1>3, <1>4

\* How far a transaction is at each statement.
LEMMA RankNumbers ==
    ASSUME NEW op \in {"register", "migrate"} \cup Creations \cup Updates,
           NEW n \in 1 .. Last(op)
    PROVE  /\ Ranks(op)[n] \in 0 .. 5
           /\ n > 1 => Ranks(op)[n] >= 2
           /\ n = 1 => Ranks(op)[n] = IF op \in Updates THEN 2 ELSE 0
           /\ n < Last(op) => Ranks(op)[n] <= Ranks(op)[n + 1]
           /\ op = "register" => /\ n = 4 => Ranks(op)[n] = 2
                                 /\ n = 5 => Ranks(op)[n] = 3
                                 /\ n = 6 => Ranks(op)[n] = 4
                                 /\ n >= 7 => Ranks(op)[n] = 5
           /\ op \in Creations => /\ n = 6 => Ranks(op)[n] = 2
                                  /\ n = 7 => Ranks(op)[n] = 3
                                  /\ n = 8 => Ranks(op)[n] = 5
           /\ op \in Updates /\ n > 1 => Ranks(op)[n] = 5
<1>1. CASE op = "register"
  <2>1. n \in 1 .. 8 /\ Last(op) = 8
    BY <1>1, Kinds DEF Last
  <2>2. Ranks(op) = <<0, 2, 2, 2, 3, 4, 5, 5>>
    BY <1>1, Kinds DEF Ranks
  <2> QED
    BY <1>1, <2>1, <2>2, Kinds
<1>2. CASE op \in Creations
  <2>1. n \in 1 .. 8 /\ Last(op) = 8
    BY <1>2, Kinds DEF Last
  <2>2. Ranks(op) = <<0, 2, 2, 2, 2, 2, 3, 5>>
    BY <1>2, Kinds DEF Ranks
  <2> QED
    BY <1>2, <2>1, <2>2, Kinds
<1>3. CASE op = "migrate"
  <2>1. n \in 1 .. 4 /\ Last(op) = 4
    BY <1>3, Kinds DEF Last
  <2>2. Ranks(op) = <<0, 2, 2, 2>>
    BY <1>3, Kinds DEF Ranks
  <2> QED
    BY <1>3, <2>1, <2>2, Kinds
<1>4. CASE op \in Updates
  <2>1. n \in 1 .. 3 /\ Last(op) = 3
    BY <1>4, Kinds DEF Last
  <2>2. Ranks(op) = <<2, 5, 5>>
    BY <1>4, Kinds DEF Ranks
  <2> QED
    BY <1>4, <2>1, <2>2, Kinds
<1> QED
  BY <1>1, <1>2, <1>3, <1>4

-----------------------------------------------------------------------------
(* What statements lock *)

\* The kinds of the advisory locks.
LEMMA AdvisoryKinds ==
    ASSUME NEW r, r.op \in {"register", "migrate"} \cup Creations
    PROVE  /\ First(r).kind \notin EntryKinds /\ Second(r).kind \notin EntryKinds
           /\ r.op # "migrate" => HeldFrom(First(r).kind) = 1
           /\ r.op = "migrate" => HeldFrom(First(r).kind) = 2 /\ First(r) = Second(r)
           /\ HeldFrom(Second(r).kind) = 2
<1>1. CASE r.op = "register"
  BY <1>1, LockFields DEF First, Second, EntryKinds, HeldFrom
<1>2. CASE r.op = "create_evaluation"
  BY <1>2, LockFields DEF First, Second, EntryKinds, HeldFrom
<1>3. CASE r.op = "create_promotion"
  BY <1>3, LockFields DEF First, Second, EntryKinds, HeldFrom
<1>4. CASE r.op = "migrate"
  BY <1>4, LockFields DEF First, Second, EntryKinds, HeldFrom
<1> QED
  BY <1>1, <1>2, <1>3, <1>4 DEF Creations

\* The advisory lock that comes next, and whether it is the last.
LEMMA NextLock ==
    ASSUME TxnOK, NEW t \in Threads, At(t) = "locks", Holds(txn[t])
    PROVE  LET r == txn[t].request
               more == Cardinality(txn[t].exclusive) + 1 # Len(AdvisoryLocks(t))
           IN  \/ /\ txn[t].exclusive = {} /\ NextAdvisory(t) = {First(r)}
                  /\ more <=> r.op # "migrate"
               \/ /\ txn[t].exclusive = {First(r)} /\ NextAdvisory(t) = {Second(r)}
                  /\ ~more /\ r.op # "migrate"
<1> DEFINE r == txn[t].request
<1>1. /\ r.op \in {"register", "migrate"} \cup Creations /\ r.op \notin Updates
      /\ txn[t].at = 1
  BY AtNumbers, AtOpen, Kinds
<1>2. AdvisoryLocks(t) = IF r.op = "migrate" THEN <<First(r)>> ELSE <<First(r), Second(r)>>
  <2>1. CASE r.op = "register"
    BY <2>1 DEF AdvisoryLocks, RegistrationLocks, First, Second, Creations
  <2>2. CASE r.op = "create_evaluation"
    BY <2>2 DEF AdvisoryLocks, CreationLocks, First, Second, Creations
  <2>3. CASE r.op = "create_promotion"
    BY <2>3 DEF AdvisoryLocks, CreationLocks, First, Second, Creations
  <2>4. CASE r.op = "migrate"
    BY <2>4 DEF AdvisoryLocks, MigrationLocks, First, Creations
  <2> QED
    BY <1>1, <2>1, <2>2, <2>3, <2>4 DEF Creations
<1>3. Cardinality({}) = 0 /\ Cardinality({First(r)}) = 1
  BY FS_EmptySet, FS_Singleton
<1>4. txn[t].exclusive = {} \/ (txn[t].exclusive = {First(r)} /\ r.op # "migrate")
  BY <1>1 DEF Holds
<1> HIDE DEF r
<1>5. CASE r.op = "migrate"
  <2>1. Len(AdvisoryLocks(t)) = 1 /\ AdvisoryLocks(t)[1] = First(r)
    BY <1>2, <1>5
  <2>2. txn[t].exclusive = {} /\ Cardinality(txn[t].exclusive) + 1 = 1
    BY <1>3, <1>4, <1>5
  <2>3. NextAdvisory(t) = {First(r)}
    BY <2>1, <2>2 DEF NextAdvisory
  <2> QED
    BY <1>5, <2>1, <2>2, <2>3 DEF r
<1>6. CASE r.op # "migrate"
  <2>1. /\ Len(AdvisoryLocks(t)) = 2
        /\ AdvisoryLocks(t)[1] = First(r) /\ AdvisoryLocks(t)[2] = Second(r)
    BY <1>2, <1>6
  <2>2. CASE txn[t].exclusive = {}
    <3>1. Cardinality(txn[t].exclusive) + 1 = 1
      BY <1>3, <2>2
    <3>2. NextAdvisory(t) = {First(r)}
      BY <2>1, <3>1 DEF NextAdvisory
    <3> QED
      BY <1>6, <2>1, <2>2, <3>1, <3>2 DEF r
  <2>3. CASE txn[t].exclusive = {First(r)}
    <3>1. Cardinality(txn[t].exclusive) + 1 = 2
      BY <1>3, <2>3
    <3>2. NextAdvisory(t) = {Second(r)}
      BY <2>1, <3>1 DEF NextAdvisory
    <3> QED
      BY <1>6, <2>1, <2>3, <3>1, <3>2 DEF r
  <2> QED
    BY <1>4, <2>2, <2>3
<1> QED
  BY <1>5, <1>6 DEF r

\* An INSERT is guarded by the advisory locks of its operation.
LEMMA InsertedGuarded ==
    ASSUME TxnOK, NEW t \in Threads, txn[t] # Idle, NEW l \in Inserted(t)
    PROVE  LET r == txn[t].request
           IN  /\ l.kind \in EntryKinds
               /\ Guard(l) \in {First(r), Second(r)}
               /\ r.op \notin Updates /\ txn[t].at > 1
               /\ At(t) \in {"write-application", "insert-version", "insert-row", "create-tables"}
<1> DEFINE r == txn[t].request
<1>1. CASE At(t) = "write-application" /\ txn[t].row = None
  <2>1. r.op = "register" /\ txn[t].at = 5
    BY <1>1, AtNumbers, Kinds
  <2>2. l = Lock("applications_pkey", r.row.application_id)
    BY <1>1 DEF Inserted
  <2> QED
    BY SMTT(30), <1>1, <2>1, <2>2, LockFields DEF EntryKinds, Guard, First, Second, Updates
<1>2. CASE At(t) = "insert-version"
  <2>1. r.op = "register" /\ txn[t].at = 7
    BY <1>2, AtNumbers, Kinds
  <2>2. \/ l = Lock("application_versions_pkey", r.id)
        \/ l = Lock("uq_evidence", EvidenceOf(r.row))
        \/ l = Lock("uq_current", PointerOf(r.row))
    BY <1>2 DEF Inserted, VersionEntries
  <2>3. EvidenceOf(r.row)[1] = r.row.application_id /\ PointerOf(r.row)[1] = r.row.application_id
    BY DEF EvidenceOf, PointerOf
  <2> QED
    BY <1>2, <2>1, <2>2, <2>3, LockFields DEF EntryKinds, Guard, First, Second, Updates
<1>3. CASE At(t) = "insert-row"
  <2>1. r.op \in Creations /\ txn[t].at = 5 /\ r.op \notin Updates
    BY <1>3, AtNumbers, Kinds
  <2>2. CASE r.op = "create_evaluation"
    <3>1. \/ l = Lock("evaluation_runs_pkey", r.id)
          \/ l = Lock("uq_active_evaluation", ActiveEvaluationKey(r.row))
      BY <1>3, <2>2 DEF Inserted, EvaluationEntries
    <3> QED
      BY <1>3, <2>1, <2>2, <3>1, LockFields DEF EntryKinds, Guard, First, Second
  <2>3. CASE r.op = "create_promotion"
    <3>1. \/ l = Lock("promotion_requests_pkey", r.id)
          \/ l = Lock("uq_active_promotion", ActivePromotionKey(r.row))
      BY <1>3, <2>3 DEF Inserted, PromotionEntries
    <3> QED
      BY <1>3, <2>1, <2>3, <3>1, LockFields DEF EntryKinds, Guard, First, Second
  <2> QED
    BY <2>1, <2>2, <2>3 DEF Creations
<1>4. CASE At(t) = "create-tables"
  <2>1. r.op = "migrate" /\ txn[t].at = 3
    BY <1>4, AtNumbers, Kinds
  <2>2. \E n : l = Lock("pg_class", n)
    BY <1>4 DEF Inserted
  <2> QED
    BY <1>4, <2>1, <2>2, LockFields DEF EntryKinds, Guard, First, Second, Updates
<1> QED
  BY <1>1, <1>2, <1>3, <1>4 DEF Inserted

\* The rows a statement locks, by its position.
LEMMA RowsLocked ==
    ASSUME TxnOK, NEW t \in Threads, txn[t] # Idle
    PROVE  LET r == txn[t].request
               n == txn[t].at
           IN  /\ \A l \in Selected(t) :
                     \/ r.op = "register" /\ n = 4 /\ l.kind = "application-row"
                     \/ r.op = "register" /\ n = 6 /\ l.kind = "version-row"
                     \/ r.op \in Updates /\ n \in {1, 2} /\ l = OwnRow(r)
               /\ \A l \in Referenced(t) :
                     \/ r.op \in Creations /\ n = 6 /\ l.kind = "application-row"
                     \/ r.op \in Creations /\ n = 7 /\ l.kind = "version-row"
<1> DEFINE r == txn[t].request
<1>1. ASSUME NEW l \in Selected(t)
      PROVE  \/ r.op = "register" /\ txn[t].at = 4 /\ l.kind = "application-row"
             \/ r.op = "register" /\ txn[t].at = 6 /\ l.kind = "version-row"
             \/ r.op \in Updates /\ txn[t].at \in {1, 2} /\ l = OwnRow(r)
  <2>1. CASE At(t) = "application"
    BY <2>1, AtNumbers, Kinds, LockFields DEF Selected
  <2>2. CASE At(t) = "previous"
    BY <2>2, AtNumbers, Kinds, LockFields DEF Selected
  <2>3. CASE At(t) \in {"row", "update"}
    <3>1. r.op \in Updates /\ txn[t].at \in {1, 2}
      BY <2>3, AtNumbers, Kinds
    <3> QED
      BY <2>3, <3>1 DEF Selected, OwnRow
  <2> QED
    BY <2>1, <2>2, <2>3 DEF Selected
<1>2. ASSUME NEW l \in Referenced(t)
      PROVE  \/ r.op \in Creations /\ txn[t].at = 6 /\ l.kind = "application-row"
             \/ r.op \in Creations /\ txn[t].at = 7 /\ l.kind = "version-row"
  <2>1. CASE At(t) = "check-application"
    BY <2>1, AtNumbers, Kinds, LockFields DEF Referenced
  <2>2. CASE At(t) = "check-version"
    BY <2>2, AtNumbers, Kinds, LockFields DEF Referenced
  <2> QED
    BY <2>1, <2>2 DEF Referenced
<1> QED
  BY <1>1, <1>2

-----------------------------------------------------------------------------
(* A transaction takes locks and lets them go *)

\* The transaction of t once it has locked more and read row and previous.
Advanced(t, row, previous) ==
    [at |-> txn[t].at + 1, request |-> txn[t].request,
     exclusive |-> txn[t].exclusive \cup Exclusive(t),
     shared |-> txn[t].shared \cup Referenced(t),
     row |-> row, previous |-> previous]

\* What a statement of t has read changes nothing else of its transaction.
ReadOf(t, read) ==
    /\ Shaped(read)
    /\ read.at = txn[t].at /\ read.request = txn[t].request
    /\ read.exclusive = txn[t].exclusive /\ read.shared = txn[t].shared

\* What a statement does to the transactions.
LEMMA Executed ==
    ASSUME TxnOK, NEW t \in Threads, txn[t] # Idle, NEW read, Execute(t, read),
           ReadOf(t, read)
    PROVE  /\ txn' = [u \in Threads |->
                         IF u = t THEN Advanced(t, read.row, read.previous) ELSE txn[u]]
           /\ txn'[t] = Advanced(t, read.row, read.previous)
           /\ \A u \in Threads \ {t} : txn'[u] = txn[u]
           /\ UNCHANGED <<tables, applied, instance>>
<1>1. txn' = [txn EXCEPT ![t] = [read EXCEPT !.at = @ + 1,
                                             !.exclusive = @ \cup Exclusive(t),
                                             !.shared = @ \cup Referenced(t)]]
  BY DEF Execute
<1>2. [read EXCEPT !.at = @ + 1, !.exclusive = @ \cup Exclusive(t),
                   !.shared = @ \cup Referenced(t)] = Advanced(t, read.row, read.previous)
  <2>1. read = [at |-> txn[t].at, request |-> txn[t].request,
                exclusive |-> txn[t].exclusive, shared |-> txn[t].shared,
                row |-> read.row, previous |-> read.previous]
    BY DEF ReadOf, Shaped
  <2> DEFINE at == txn[t].at
             request == txn[t].request
             exclusive == txn[t].exclusive
             shared == txn[t].shared
             row == read.row
             previous == read.previous
  <2>2. Advanced(t, row, previous)
            = [at |-> at + 1, request |-> request, exclusive |-> exclusive \cup Exclusive(t),
               shared |-> shared \cup Referenced(t), row |-> row, previous |-> previous]
    BY DEF Advanced
  <2> HIDE DEF at, request, exclusive, shared, row, previous
  <2>3. read = [at |-> at, request |-> request, exclusive |-> exclusive,
                shared |-> shared, row |-> row, previous |-> previous]
    BY <2>1 DEF at, request, exclusive, shared, row, previous
  <2>4. PICK q : q = [read EXCEPT !.at = @ + 1, !.exclusive = @ \cup Exclusive(t),
                                  !.shared = @ \cup Referenced(t)]
    OBVIOUS
  <2>5. /\ q.at = at + 1 /\ q.request = request
        /\ q.exclusive = exclusive \cup Exclusive(t)
        /\ q.shared = shared \cup Referenced(t)
        /\ q.row = row /\ q.previous = previous
    BY <2>3, <2>4
  <2>6. q = [at |-> q.at, request |-> q.request, exclusive |-> q.exclusive,
             shared |-> q.shared, row |-> q.row, previous |-> q.previous]
    BY <2>3, <2>4
  <2> QED
    BY <2>2, <2>4, <2>5, <2>6 DEF row, previous
<1>3. txn = [u \in Threads |-> txn[u]]
  BY DEF TxnOK
<1>4. UNCHANGED <<tables, applied, instance>>
  BY DEF Execute
<1> QED
  BY <1>1, <1>2, <1>3, <1>4

\* Whoever did not move holds and keeps the same locks.
LEMMA LocksOfOthers ==
    ASSUME TxnOK, LocksDisjoint, NEW t \in Threads, NEW x,
           txn' = [u \in Threads |-> IF u = t THEN x ELSE txn[u]],
           Shaped(x), Placed(x),
           \A u \in Threads \ {t} : x.exclusive \cap txn[u].exclusive = {}
    PROVE  TxnOK' /\ LocksDisjoint'
<1>1. \A u \in Threads : txn'[u] = IF u = t THEN x ELSE txn[u]
  OBVIOUS
<1>2. TxnOK'
  BY <1>1 DEF TxnOK, Shaped, Placed
<1>3. LocksDisjoint'
  BY <1>1 DEF LocksDisjoint
<1> QED
  BY <1>2, <1>3

\* A statement, with the locks it takes.
LEMMA ExecuteLocks ==
    ASSUME TxnOK, LocksDisjoint, NEW t \in Threads, txn[t] # Idle, Holds(txn[t]),
           At(t) \notin {"locks", "commit"},
           At(t) = "row" => OwnRow(txn[t].request) \in Selected(t),
           NEW read, Execute(t, read),
           ReadOf(t, read)
    PROVE  /\ TxnOK' /\ LocksDisjoint' /\ Holds(txn[t])'
           /\ txn'[t] = Advanced(t, read.row, read.previous)
           /\ \A u \in Threads \ {t} : txn'[u] = txn[u]
           /\ UNCHANGED <<tables, applied, instance>>
<1> DEFINE r == txn[t].request
           n == txn[t].at
           x == Advanced(t, read.row, read.previous)
<1>1. /\ txn' = [u \in Threads |-> IF u = t THEN x ELSE txn[u]]
      /\ txn'[t] = x
      /\ \A u \in Threads \ {t} : txn'[u] = txn[u]
      /\ UNCHANGED <<tables, applied, instance>>
  BY Executed
<1>2. /\ x.at = n + 1 /\ x.request = r
      /\ x.exclusive = txn[t].exclusive \cup Selected(t) \cup Inserted(t)
      /\ x.shared = txn[t].shared \cup Referenced(t)
  BY DEF Advanced, Exclusive, NextAdvisory
<1>3. /\ r.op \in {"register", "migrate"} \cup Creations \cup Updates
      /\ n \in 1 .. Last(r.op) /\ n # Last(r.op)
      /\ n > 1 \/ r.op \in Updates
      /\ r \in Requests \cup {Migrate}
      /\ n = 1 => At(t) = "row"
  BY AtNumbers, Positions
<1>4. Last(r.op) \in Nat
  BY DEF Last
<1>5. /\ n \in 1 .. Last(r.op) /\ n + 1 \in 1 .. Last(r.op)
      /\ n + 1 > 1 /\ n < Last(r.op)
  BY <1>3, <1>4, AtNumbers
<1>6. Shaped(x) /\ Placed(x)
  BY <1>2, <1>3, <1>5 DEF Shaped, Placed, Advanced
<1>7. \A u \in Threads \ {t} : x.exclusive \cap txn[u].exclusive = {}
  <2>1. \A u \in Threads \ {t} : Exclusive(t) \cap txn[u].exclusive = {}
    BY DEF Execute, WaitsFor
  <2>2. \A u \in Threads \ {t} : txn[t].exclusive \cap txn[u].exclusive = {}
    BY DEF LocksDisjoint
  <2> QED
    BY <2>1, <2>2 DEF Advanced
<1>8. Rank(x) = Ranks(r.op)[n + 1]
  BY <1>2, <1>5 DEF Rank
<1>9. Holds(x)
  <2>1. r.op \in Updates => OwnRow(r) \in x.exclusive
    BY <1>2, <1>3, <1>5 DEF Holds
  <2>2. r.op \notin Updates => {First(r), Second(r)} \subseteq x.exclusive
    BY <1>2, <1>3, <1>5 DEF Holds
  <2>3. \A l \in x.exclusive : l.kind \in EntryKinds => Guard(l) \in x.exclusive
    <3>1. ASSUME NEW l \in Inserted(t) PROVE Guard(l) \in x.exclusive
      BY <3>1, <2>2, InsertedGuarded
    <3>2. ASSUME NEW l \in Selected(t) PROVE l.kind \notin EntryKinds
      BY <3>2, RowsLocked, LockFields DEF EntryKinds, OwnRow
    <3>3. ASSUME NEW l \in txn[t].exclusive, l.kind \in EntryKinds
          PROVE  Guard(l) \in x.exclusive
      BY <3>3, <1>2 DEF Holds
    <3> QED
      BY <1>2, <3>1, <3>2, <3>3
  <2>4. \A l \in x.shared : l.kind \in {"application-row", "version-row"}
    BY <1>2, RowsLocked DEF Holds
  <2>5. ASSUME NEW l \in x.exclusive \cup x.shared
        PROVE  HeldFrom(l.kind) <= Ranks(r.op)[n + 1]
    <3>1. CASE l \in txn[t].exclusive \cup txn[t].shared
      <4>1. HeldFrom(l.kind) <= Rank(txn[t])
        BY <3>1 DEF Holds
      <4>2. Ranks(r.op)[n] <= Ranks(r.op)[n + 1]
        BY <1>3, <1>5, RankNumbers
      <4>3. Rank(txn[t]) = Ranks(r.op)[n] \/ (n = 1 /\ r.op \in Updates /\ txn[t].exclusive # {})
        BY <1>3 DEF Rank
      <4>4. Rank(txn[t]) = Ranks(r.op)[n]
        BY <4>3 DEF Holds
      <4> QED
        BY <4>1, <4>2, <4>4, <1>5, <1>3, RankNumbers DEF HeldFrom
    <3>2. CASE l \in Inserted(t)
      <4>1. HeldFrom(l.kind) = 2
        BY <3>2, InsertedGuarded DEF HeldFrom, EntryKinds
      <4> QED
        BY <4>1, <1>3, <1>5, RankNumbers
    <3>3. CASE l \in Selected(t)
      <4>1. CASE r.op = "register" /\ n = 4 /\ l.kind = "application-row"
        <5>1. Ranks(r.op)[n + 1] = 3
          BY <1>3, <1>5, <4>1, RankNumbers
        <5> QED
          BY <4>1, <5>1 DEF HeldFrom
      <4>2. CASE r.op = "register" /\ n = 6 /\ l.kind = "version-row"
        <5>1. Ranks(r.op)[n + 1] = 5
          BY <1>3, <1>5, <4>2, RankNumbers
        <5> QED
          BY <4>2, <5>1 DEF HeldFrom
      <4>3. CASE r.op \in Updates /\ n \in {1, 2} /\ l = OwnRow(r)
        <5>1. Ranks(r.op)[n + 1] = 5
          BY <1>3, <1>5, <4>3, RankNumbers
        <5>2. l.kind \in {"evaluation-row", "promotion-row"}
          BY <4>3, LockFields DEF OwnRow
        <5> QED
          BY <5>1, <5>2 DEF HeldFrom
      <4> QED
        BY <3>3, <4>1, <4>2, <4>3, RowsLocked
    <3>4. CASE l \in Referenced(t)
      <4>1. CASE r.op \in Creations /\ n = 6 /\ l.kind = "application-row"
        <5>1. Ranks(r.op)[n + 1] = 3
          <6>1. n + 1 = 7 /\ 7 \in 1 .. Last(r.op) /\ r.op # "register"
            BY <1>3, <1>5, <4>1, Kinds
          <6> QED
            BY <1>3, <4>1, <6>1, RankNumbers
        <5> QED
          BY <4>1, <5>1 DEF HeldFrom
      <4>2. CASE r.op \in Creations /\ n = 7 /\ l.kind = "version-row"
        <5>1. Ranks(r.op)[n + 1] = 5
          BY <1>3, <1>5, <4>2, RankNumbers, AtNumbers, Kinds DEF Last
        <5> QED
          BY <4>2, <5>1 DEF HeldFrom
      <4> QED
        BY <3>4, <4>1, <4>2, RowsLocked
    <3> QED
      BY <1>2, <3>1, <3>2, <3>3, <3>4
  <2> QED
    BY <1>2, <1>5, <1>8, <2>1, <2>2, <2>3, <2>4, <2>5 DEF Holds
<1>10. TxnOK' /\ LocksDisjoint'
  BY <1>1, <1>6, <1>7, LocksOfOthers
<1>11. Holds(txn[t])'
  BY <1>1, <1>9
<1> QED
  BY <1>1, <1>10, <1>11

-----------------------------------------------------------------------------
(* Steps that write nothing *)

\* What a transaction has read is judged by the tables alone.
LEMMA SameKnowledge ==
    ASSUME NEW u \in Threads, txn'[u] = txn[u], UNCHANGED <<tables, applied>>, Knows(u)
    PROVE  Knows(u)'
<1>1. /\ applications' = applications /\ versions' = versions
      /\ evaluations' = evaluations /\ promotions' = promotions /\ applied' = applied
  BY DEF tables, registry
<1> DEFINE x == txn[u]
<1>2. RegistrationKnows(x) => RegistrationKnows(x)'
  BY <1>1 DEF RegistrationKnows, StoredApplication, RepositoryAllowed, CurrentOf, Current,
              EvidenceOf, PointerOf
<1>3. CreationKnows(x) => CreationKnows(x)'
  BY <1>1 DEF CreationKnows, RowsOf, VersionStored, NothingActive, PointerOf,
              ActiveEvaluationKey, ActivePromotionKey
<1>4. UpdateKnows(x) => UpdateKnows(x)'
  BY <1>1 DEF UpdateKnows, RowsOf, Permitted
<1>5. MigrationKnows(u) => MigrationKnows(u)'
  BY <1>1 DEF MigrationKnows
<1> QED
  BY <1>2, <1>3, <1>4, <1>5 DEF Knows

\* A step that writes nothing keeps the invariant if the transactions it moves know
\* what they should.
LEMMA NothingWritten ==
    ASSUME Locked, UNCHANGED <<tables, applied>>,
           instance' = [i \in Instances |-> instance'[i]],
           TxnOK', LocksDisjoint',
           \A u \in Threads : \/ txn'[u] = txn[u]
                              \/ txn'[u] # Idle => Holds(txn[u])' /\ Knows(u)'
    PROVE  Locked'
<1>1. /\ applications' = applications /\ versions' = versions
      /\ evaluations' = evaluations /\ promotions' = promotions /\ applied' = applied
  BY DEF tables, registry
<1>2. TablesOK'
  BY <1>1 DEF Locked, TypeOK, TablesOK
<1>3. VersionsOK'
  BY <1>1 DEF Locked, VersionsOK, Current, EvidenceOf, PointerOf
<1>4. AppliedOK'
  BY <1>1 DEF Locked, AppliedOK
<1>5. ASSUME NEW u \in Threads, txn'[u] # Idle
      PROVE  Holds(txn[u])' /\ Knows(u)'
  <2>1. CASE txn'[u] = txn[u]
    <3>1. Holds(txn[u]) /\ Knows(u)
      BY <1>5, <2>1 DEF Locked
    <3>2. Holds(txn[u])'
      BY <3>1, <2>1
    <3> QED
      BY <2>1, <3>1, <3>2, SameKnowledge
  <2> QED
    BY <1>5, <2>1
<1> QED
  BY <1>2, <1>3, <1>4, <1>5 DEF Locked, TypeOK

\* A statement that reads what its operation should know.
LEMMA ReadKeeps ==
    ASSUME Locked, NEW t \in Threads, txn[t] # Idle,
           At(t) \notin {"locks", "commit"},
           At(t) = "row" => OwnRow(txn[t].request) \in Selected(t),
           NEW read, Execute(t, read),
           ReadOf(t, read),
           txn'[t] = Advanced(t, read.row, read.previous) => Knows(t)'
    PROVE  Locked'
<1>1. /\ TxnOK' /\ LocksDisjoint' /\ Holds(txn[t])'
      /\ txn'[t] = Advanced(t, read.row, read.previous)
      /\ \A u \in Threads \ {t} : txn'[u] = txn[u]
      /\ UNCHANGED <<tables, applied, instance>>
  BY ExecuteLocks DEF Locked, TypeOK
<1>2. instance' = [i \in Instances |-> instance'[i]]
  BY <1>1 DEF Locked, TypeOK
<1> QED
  BY <1>1, <1>2, NothingWritten

\* The transactions of some threads end, and nothing is written.
LEMMA EndKeeps ==
    ASSUME Locked, NEW S \in SUBSET Threads,
           txn' = [u \in Threads |-> IF u \in S THEN Idle ELSE txn[u]],
           UNCHANGED <<tables, applied>>, instance' = [i \in Instances |-> instance'[i]]
    PROVE  Locked'
<1>1. \A u \in Threads : txn'[u] = IF u \in S THEN Idle ELSE txn[u]
  OBVIOUS
<1>2. Shaped(Idle) /\ Idle.exclusive = {}
  BY DEF Shaped, Idle
<1>3. TxnOK'
  BY <1>1, <1>2 DEF Locked, TypeOK, TxnOK, Shaped, Placed
<1>4. LocksDisjoint'
  BY <1>1, <1>2 DEF Locked, LocksDisjoint
<1> QED
  BY <1>1, <1>3, <1>4, NothingWritten

\* A transaction opens: it holds nothing and knows nothing.
LEMMA OpenKeeps ==
    ASSUME Locked, NEW t \in Threads, NEW r \in Requests \cup {Migrate}, Open(t, r)
    PROVE  Locked'
<1> DEFINE x == [at |-> 1, request |-> r, exclusive |-> {}, shared |-> {},
                 row |-> None, previous |-> None]
<1>1. [Idle EXCEPT !.at = 1, !.request = r] = x
  <2>1. PICK q : q = [Idle EXCEPT !.at = 1, !.request = r]
    OBVIOUS
  <2>2. /\ q.at = 1 /\ q.request = r /\ q.exclusive = {} /\ q.shared = {}
        /\ q.row = None /\ q.previous = None
    BY <2>1 DEF Idle
  <2>3. q = [at |-> q.at, request |-> q.request, exclusive |-> q.exclusive,
             shared |-> q.shared, row |-> q.row, previous |-> q.previous]
    BY <2>1 DEF Idle
  <2> QED
    BY <2>1, <2>2, <2>3
<1>2. txn' = [u \in Threads |-> IF u = t THEN x ELSE txn[u]]
  BY <1>1 DEF Open, Locked, TypeOK, TxnOK
<1>3. r.op \in {"register", "migrate"} \cup Creations \cup Updates
  BY RequestKinds
<1>4. Last(r.op) \in Nat /\ 1 \in 1 .. Last(r.op)
  BY DEF Last
<1>5. Shaped(x) /\ Placed(x)
  BY <1>4 DEF Shaped, Placed
<1>6. TxnOK' /\ LocksDisjoint'
  BY <1>2, <1>5, LocksOfOthers DEF Locked, TypeOK
<1>7. Holds(x)
  BY <1>3 DEF Holds
<1>8. Knows(t)'
  BY <1>2 DEF Knows, RegistrationKnows, CreationKnows, UpdateKnows, MigrationKnows
<1>9. UNCHANGED <<tables, applied, instance>>
  BY DEF Open
<1> QED
  BY <1>2, <1>6, <1>7, <1>8, <1>9, NothingWritten DEF Locked, TypeOK

\* An advisory lock, in the order of the keys.
LEMMA TakeAdvisoryLockKeeps ==
    ASSUME Locked, NEW t \in Threads, TakeAdvisoryLock(t)
    PROVE  Locked'
<1> DEFINE r == txn[t].request
           last == Cardinality(txn[t].exclusive) + 1 = Len(AdvisoryLocks(t))
           at == IF last THEN txn[t].at + 1 ELSE txn[t].at
           exclusive == txn[t].exclusive \cup NextAdvisory(t)
           x == [at |-> at, request |-> r, exclusive |-> exclusive,
                 shared |-> txn[t].shared, row |-> txn[t].row, previous |-> txn[t].previous]
<1>1. TxnOK /\ LocksDisjoint /\ At(t) = "locks" /\ txn[t] # Idle
  BY AtOpen DEF Locked, TypeOK, TakeAdvisoryLock
<1>2. Holds(txn[t]) /\ Knows(t)
  BY <1>1 DEF Locked
<1>3. /\ r.op \in {"register", "migrate"} \cup Creations /\ r.op \notin Updates
      /\ txn[t].at = 1 /\ r \in Requests \cup {Migrate}
  BY <1>1, AtNumbers, Positions, Kinds
<1>4. txn' = [u \in Threads |-> IF u = t THEN x ELSE txn[u]]
  <2>1. PICK q : q = [txn[t] EXCEPT !.exclusive = exclusive, !.at = at]
    OBVIOUS
  <2>2. txn' = [u \in Threads |-> IF u = t THEN q ELSE txn[u]]
    BY <1>1, <2>1 DEF TakeAdvisoryLock, TxnOK
  <2>3. txn[t] = [at |-> txn[t].at, request |-> r, exclusive |-> txn[t].exclusive,
                  shared |-> txn[t].shared, row |-> txn[t].row, previous |-> txn[t].previous]
    BY <1>1 DEF TxnOK, Shaped
  <2> HIDE DEF at, exclusive
  <2>4. /\ q.at = at /\ q.request = r /\ q.exclusive = exclusive
        /\ q.shared = txn[t].shared /\ q.row = txn[t].row /\ q.previous = txn[t].previous
    BY <2>1, <2>3
  <2>5. q = [at |-> q.at, request |-> q.request, exclusive |-> q.exclusive,
             shared |-> q.shared, row |-> q.row, previous |-> q.previous]
    BY <2>1, <2>3
  <2>6. q = x
    BY <2>4, <2>5
  <2> QED
    BY <2>2, <2>6
<1>5. \/ /\ txn[t].exclusive = {} /\ exclusive = {First(r)}
         /\ at = IF r.op = "migrate" THEN 2 ELSE 1
      \/ /\ txn[t].exclusive = {First(r)} /\ exclusive = {First(r), Second(r)}
         /\ at = 2 /\ r.op # "migrate"
  BY <1>1, <1>2, <1>3, NextLock
<1>6. \A u \in Threads \ {t} : exclusive \cap txn[u].exclusive = {}
  BY <1>1 DEF TakeAdvisoryLock, WaitsFor, Exclusive, LocksDisjoint
<1> HIDE DEF at, exclusive
<1>7. Shaped(x) /\ Placed(x)
  <2>1. Last(r.op) \in Nat /\ Last(r.op) >= 4
    BY <1>3, Kinds DEF Last
  <2>2. at \in 1 .. Last(r.op)
    BY <1>5, <2>1
  <2> QED
    BY <1>3, <2>2 DEF Shaped, Placed
<1>8. TxnOK' /\ LocksDisjoint'
  BY <1>1, <1>4, <1>6, <1>7, LocksOfOthers
<1>9. Holds(x)
  <2>1. /\ First(r).kind \notin EntryKinds /\ Second(r).kind \notin EntryKinds
        /\ r.op # "migrate" => HeldFrom(First(r).kind) = 1
        /\ r.op = "migrate" => HeldFrom(First(r).kind) = 2 /\ First(r) = Second(r)
        /\ HeldFrom(Second(r).kind) = 2
    BY <1>3, AdvisoryKinds
  <2>2. \A l \in txn[t].shared : l.kind \in {"application-row", "version-row"}
    BY <1>2 DEF Holds
  <2>3. txn[t].shared = {}
    <3>1. \A l \in txn[t].shared : HeldFrom(l.kind) >= 3
      BY <2>2 DEF HeldFrom
    <3>2. Ranks(r.op)[1] = 0
      <4>1. 1 \in 1 .. Last(r.op)
        BY <1>1, <1>3, AtNumbers
      <4> QED
        BY <1>3, <4>1, RankNumbers
    <3>3. Rank(txn[t]) \in {0, 1}
      BY <1>3, <3>2 DEF Rank
    <3>4. \A l \in txn[t].shared : HeldFrom(l.kind) <= Rank(txn[t])
      BY <1>2 DEF Holds
    <3> QED
      BY <3>1, <3>3, <3>4, <2>2 DEF HeldFrom
  <2>4. CASE exclusive = {First(r)} /\ at = 1 /\ r.op # "migrate"
    <3>1. Rank(x) = 1
      BY <2>4 DEF Rank
    <3> QED
      BY <1>3, <2>1, <2>3, <2>4, <3>1 DEF Holds
  <2>5. CASE at = 2 /\ {First(r), Second(r)} = exclusive
    <3>1. 2 \in 1 .. Last(r.op)
      BY <1>7, <2>5 DEF Placed, Idle
    <3>2. Rank(x) = Ranks(r.op)[2] /\ Ranks(r.op)[2] >= 2 /\ Ranks(r.op)[2] \in 0 .. 5
      BY <1>3, <2>5, <3>1, RankNumbers DEF Rank
    <3> QED
      BY <1>3, <2>1, <2>3, <2>5, <3>2 DEF Holds
  <2> QED
    BY <1>5, <2>1, <2>4, <2>5
<1>10. Knows(t)'
  <2>1. txn'[t] = x
    BY <1>4
  <2>2. at \in {1, 2}
    BY <1>5
  <2> QED
    BY <1>3, <2>1, <2>2
       DEF Knows, RegistrationKnows, CreationKnows, UpdateKnows, MigrationKnows
<1>11. UNCHANGED <<tables, applied, instance>>
  BY DEF TakeAdvisoryLock
<1> QED
  BY <1>4, <1>8, <1>9, <1>10, <1>11, NothingWritten DEF Locked, TypeOK

\* A transaction that begins holds nothing and has read nothing.
LEMMA BeginKeeps ==
    ASSUME Locked, NEW t \in Threads, Begin(t) \/ BeginMigration(t)
    PROVE  Locked'
BY OpenKeeps DEF Begin, BeginMigration

\* Whoever rolls back gives up its locks and writes nothing.
LEMMA EndsKeep ==
    ASSUME Locked, (\E t \in Threads : Abort(t) \/ RefuseSchema(t)) \/ \E i \in Instances : Restart(i)
    PROVE  Locked'
<1>1. ASSUME NEW t \in Threads, Abort(t) \/ RefuseSchema(t)
      PROVE  Locked'
  <2>1. txn' = [u \in Threads |-> IF u \in {t} THEN Idle ELSE txn[u]]
    BY <1>1 DEF Abort, RefuseSchema, Locked, TypeOK, TxnOK
  <2>2. UNCHANGED <<tables, applied>> /\ instance' = [i \in Instances |-> instance'[i]]
    BY <1>1 DEF Abort, RefuseSchema, Locked, TypeOK
  <2> QED
    BY <2>1, <2>2, EndKeeps
<1>2. ASSUME NEW i \in Instances, Restart(i)
      PROVE  Locked'
  <2> DEFINE S == {t \in Threads : InstanceOf[t] = i}
  <2>1. txn' = [u \in Threads |-> IF u \in S THEN Idle ELSE txn[u]]
    BY <1>2 DEF Restart
  <2>2. UNCHANGED <<tables, applied>> /\ instance' = [j \in Instances |-> instance'[j]]
    BY <1>2 DEF Restart, Locked, TypeOK
  <2>3. S \in SUBSET Threads
    OBVIOUS
  <2> QED
    BY <2>1, <2>2, <2>3, EndKeeps
<1> QED
  BY <1>1, <1>2

-----------------------------------------------------------------------------
(* The statements that read *)

\* A transaction reads into row or previous, or not at all.
LEMMA ReadShapes ==
    ASSUME TxnOK, NEW t \in Threads, NEW e, NEW read
    PROVE  /\ ReadOf(t, txn[t])
           /\ read = [txn[t] EXCEPT !.row = e] =>
                  ReadOf(t, read) /\ read.row = e /\ read.previous = txn[t].previous
           /\ read = [txn[t] EXCEPT !.previous = e] =>
                  ReadOf(t, read) /\ read.row = txn[t].row /\ read.previous = e
<1> DEFINE x == txn[t]
<1>1. x = [at |-> x.at, request |-> x.request, exclusive |-> x.exclusive,
           shared |-> x.shared, row |-> x.row, previous |-> x.previous]
  BY DEF TxnOK, Shaped
<1> HIDE DEF x
<1>2. ASSUME read = [x EXCEPT !.row = e]
      PROVE  /\ read.at = x.at /\ read.request = x.request /\ read.exclusive = x.exclusive
             /\ read.shared = x.shared /\ read.row = e /\ read.previous = x.previous
             /\ Shaped(read)
  BY <1>1, <1>2 DEF Shaped
<1>3. ASSUME read = [x EXCEPT !.previous = e]
      PROVE  /\ read.at = x.at /\ read.request = x.request /\ read.exclusive = x.exclusive
             /\ read.shared = x.shared /\ read.row = x.row /\ read.previous = e
             /\ Shaped(read)
  BY <1>1, <1>3 DEF Shaped
<1>4. Shaped(x)
  BY <1>1 DEF Shaped
<1> QED
  BY <1>2, <1>3, <1>4 DEF x, ReadOf

\* What a statement leaves a transaction with.
LEMMA AdvancedFields ==
    ASSUME NEW t, NEW row, NEW previous
    PROVE  LET x == Advanced(t, row, previous)
           IN  /\ x.at = txn[t].at + 1 /\ x.request = txn[t].request
               /\ x.row = row /\ x.previous = previous
BY DEF Advanced

\* migrate reads the migrations under its lock.
LEMMA SelectAppliedKeeps ==
    ASSUME Locked, NEW t \in Threads, SelectApplied(t)
    PROVE  Locked'
<1> DEFINE read == [txn[t] EXCEPT !.row = applied]
<1>1. TxnOK /\ At(t) = "applied" /\ txn[t] # Idle /\ Execute(t, read)
  BY AtOpen DEF Locked, TypeOK, SelectApplied
<1>2. txn[t].request.op = "migrate" /\ txn[t].at = 2
  BY <1>1, AtNumbers
<1>3. applied' = applied
  BY <1>1 DEF Execute
<1>4. ASSUME txn'[t] = Advanced(t, applied, txn[t].previous)
      PROVE  Knows(t)'
  BY <1>2, <1>3, <1>4, AdvancedFields
     DEF Knows, MigrationKnows, SelectApplied, Creations, Updates
<1>5. Holds(txn[t])
  BY <1>1 DEF Locked
<1> HIDE DEF read
<1>6. ReadOf(t, read) /\ read.row = applied /\ read.previous = txn[t].previous
  BY <1>1, ReadShapes DEF read
<1> QED
  BY <1>1, <1>4, <1>6, ReadKeeps

\* What migrate has read is still so when it creates the tables.
LEMMA CreateTablesKeeps ==
    ASSUME Locked, NEW t \in Threads, CreateTables(t)
    PROVE  Locked'
<1>1. TxnOK /\ At(t) = "create-tables" /\ txn[t] # Idle /\ Execute(t, txn[t])
  BY AtOpen DEF Locked, TypeOK, CreateTables
<1>2. txn[t].request.op = "migrate" /\ txn[t].at = 3
  BY <1>1, AtNumbers
<1>3. applied' = applied
  BY <1>1 DEF Execute
<1>4. Knows(t)
  BY <1>1 DEF Locked
<1>5. ASSUME txn'[t] = Advanced(t, txn[t].row, txn[t].previous)
      PROVE  Knows(t)'
  BY <1>2, <1>3, <1>4, <1>5, AdvancedFields DEF Knows, MigrationKnows, Creations, Updates
<1> QED
  BY <1>1, <1>5, ReadShapes, ReadKeeps

\* What holds of the tables as a statement finds them holds after it.
LEMMA KnowsAfter ==
    ASSUME NEW t \in Threads, NEW x, txn'[t] = x, x.request = txn[t].request,
           UNCHANGED <<tables, applied>>,
           txn[t].request.op \in {"register"} \cup Creations \cup Updates,
           txn[t].request.op = "register" => RegistrationKnows(x),
           txn[t].request.op \in Creations => CreationKnows(x),
           txn[t].request.op \in Updates => UpdateKnows(x)
    PROVE  Knows(t)'
<1>1. /\ applications' = applications /\ versions' = versions
      /\ evaluations' = evaluations /\ promotions' = promotions /\ applied' = applied
  BY DEF tables, registry
<1>2. RegistrationKnows(x) => RegistrationKnows(txn[t])'
  BY <1>1 DEF RegistrationKnows, StoredApplication, RepositoryAllowed, CurrentOf, Current,
              EvidenceOf, PointerOf
<1>3. CreationKnows(x) => CreationKnows(txn[t])'
  BY <1>1 DEF CreationKnows, RowsOf, VersionStored, NothingActive, PointerOf,
              ActiveEvaluationKey, ActivePromotionKey
<1>4. UpdateKnows(x) => UpdateKnows(txn[t])'
  BY <1>1 DEF UpdateKnows, RowsOf, Permitted
<1>5. txn'[t].request.op # "migrate"
  BY DEF Creations, Updates
<1> QED
  BY <1>2, <1>3, <1>4, <1>5 DEF Knows

\* The statements that leave a transaction as it is.
LEMMA SameReadKeeps ==
    ASSUME Locked, NEW t \in Threads, txn[t] # Idle, Execute(t, txn[t]),
           At(t) \notin {"locks", "commit", "row"},
           LET x == Advanced(t, txn[t].row, txn[t].previous)
           IN  /\ txn[t].request.op \in {"register"} \cup Creations \cup Updates
               /\ txn[t].request.op = "register" => RegistrationKnows(x)
               /\ txn[t].request.op \in Creations => CreationKnows(x)
               /\ txn[t].request.op \in Updates => UpdateKnows(x)
    PROVE  Locked'
<1>1. TxnOK
  BY DEF Locked, TypeOK
<1>2. UNCHANGED <<tables, applied>>
  BY DEF Execute
<1>3. ReadOf(t, txn[t])
  BY <1>1, ReadShapes
<1>4. ASSUME txn'[t] = Advanced(t, txn[t].row, txn[t].previous)
      PROVE  Knows(t)'
  BY <1>2, <1>4, AdvancedFields, KnowsAfter
<1> QED
  BY <1>3, <1>4, ReadKeeps

\* The statements of a registration that read or take locks only.
LEMMA RegistrationReads ==
    ASSUME Locked, NEW t \in Threads,
           \/ SelectReplay(t) \/ (SelectIdentifier(t) /\ txn[t].request.op = "register")
           \/ WriteApplication(t) \/ InsertVersion(t)
    PROVE  Locked'
<1> DEFINE x == txn[t]
           v == txn[t].request.row
           y == Advanced(t, txn[t].row, txn[t].previous)
<1>1. /\ TxnOK /\ At(t) \in {"replay", "identifier", "write-application", "insert-version"}
      /\ txn[t] # Idle /\ Execute(t, txn[t])
  BY AtOpen DEF Locked, TypeOK, SelectReplay, SelectIdentifier, WriteApplication, InsertVersion
<1>2. txn[t].request.op = "register" /\ x.at \in Nat
  BY <1>1, AtNumbers DEF SelectReplay, WriteApplication, InsertVersion, Last
<1>3. y.at = x.at + 1 /\ y.request = x.request /\ y.row = x.row /\ y.previous = x.previous
  BY AdvancedFields
<1>4. RegistrationKnows(x)
  BY <1>1, <1>2 DEF Locked, Knows
<1> HIDE DEF y
<1>5. CASE SelectReplay(t)
  <2>1. x.at = 2 /\ EvidenceOf(v) \notin {EvidenceOf(versions[w]) : w \in DOMAIN versions}
    BY <1>1, <1>5, AtNumbers DEF SelectReplay, EvidenceIndex
  <2>2. RegistrationKnows(y)
    BY <1>3, <2>1 DEF RegistrationKnows
  <2> QED
    BY <1>1, <1>2, <1>5, <2>2, SameReadKeeps DEF SelectReplay, y, Creations, Updates
<1>6. CASE SelectIdentifier(t)
  <2>1. x.at = 3 /\ x.request.id \notin DOMAIN versions
    BY <1>1, <1>2, <1>6, AtNumbers, Kinds DEF SelectIdentifier
  <2>2. RegistrationKnows(y)
    BY <1>3, <1>4, <2>1 DEF RegistrationKnows
  <2> QED
    BY <1>1, <1>2, <1>6, <2>2, SameReadKeeps DEF SelectIdentifier, y, Creations, Updates
<1>7. CASE WriteApplication(t)
  <2>1. x.at = 5 /\ (x.row # None => RepositoryAllowed(v))
    BY <1>1, <1>7, AtNumbers DEF WriteApplication
  <2>2. RegistrationKnows(y)
    BY <1>3, <1>4, <2>1 DEF RegistrationKnows
  <2> QED
    BY <1>1, <1>2, <1>7, <2>2, SameReadKeeps DEF WriteApplication, y, Creations, Updates
<1>8. CASE InsertVersion(t)
  <2>1. x.at = 7
    BY <1>1, <1>8, AtNumbers DEF InsertVersion
  <2>2. RegistrationKnows(y)
    BY <1>3, <1>4, <2>1 DEF RegistrationKnows
  <2> QED
    BY <1>1, <1>2, <1>8, <2>2, SameReadKeeps DEF InsertVersion, y, Creations, Updates
<1> QED
  BY <1>5, <1>6, <1>7, <1>8

\* A registration reads its application.
LEMMA SelectApplicationKeeps ==
    ASSUME Locked, NEW t \in Threads, SelectApplication(t)
    PROVE  Locked'
<1> DEFINE x == txn[t]
           v == txn[t].request.row
           found == StoredApplication(txn[t].request.row.application_id)
           read == [txn[t] EXCEPT !.row = found]
           y == Advanced(t, found, txn[t].previous)
<1>1. TxnOK /\ At(t) = "application" /\ txn[t] # Idle /\ Execute(t, read)
  BY AtOpen DEF Locked, TypeOK, SelectApplication
<1>2. txn[t].request.op = "register" /\ x.at = 4
  BY <1>1, AtNumbers
<1>3. y.at = x.at + 1 /\ y.request = x.request /\ y.row = found
  BY AdvancedFields
<1>4. RegistrationKnows(x)
  BY <1>1, <1>2 DEF Locked, Knows
<1>5. UNCHANGED <<tables, applied>>
  BY <1>1 DEF Execute
<1>6. /\ ReadOf(t, read) /\ read.row = found /\ read.previous = txn[t].previous
  BY <1>1, ReadShapes
<1> HIDE DEF y, read
<1>7. RegistrationKnows(y)
  BY <1>2, <1>3, <1>4 DEF RegistrationKnows
<1>8. ASSUME txn'[t] = y
      PROVE  Knows(t)'
  BY <1>2, <1>3, <1>5, <1>7, <1>8, KnowsAfter DEF Creations, Updates
<1> QED
  BY <1>1, <1>6, <1>8, ReadKeeps DEF y

\* A registration reads the version it supersedes.
LEMMA SelectPreviousKeeps ==
    ASSUME Locked, NEW t \in Threads, SelectPrevious(t)
    PROVE  Locked'
<1> DEFINE x == txn[t]
           v == txn[t].request.row
           found == CurrentOf(txn[t].request.row)
           first == IF found = {} THEN None ELSE CHOOSE w \in found : TRUE
           read == [txn[t] EXCEPT !.previous = first]
           y == Advanced(t, txn[t].row, first)
<1>1. TxnOK /\ At(t) = "previous" /\ txn[t] # Idle /\ Execute(t, read)
  BY AtOpen DEF Locked, TypeOK, SelectPrevious
<1>2. txn[t].request.op = "register" /\ x.at = 6
  BY <1>1, AtNumbers
<1>3. y.at = x.at + 1 /\ y.request = x.request /\ y.row = x.row /\ y.previous = first
  BY AdvancedFields
<1>4. RegistrationKnows(x)
  BY <1>1, <1>2 DEF Locked, Knows
<1>5. UNCHANGED <<tables, applied>>
  BY <1>1 DEF Execute
<1>6. /\ ReadOf(t, read) /\ read.row = txn[t].row /\ read.previous = first
  BY <1>1, ReadShapes
<1>7. {first} \ {None} = found
  <2>1. \A w1, w2 \in found : w1 = w2
    BY DEF Locked, VersionsOK, CurrentOf
  <2>2. None \notin found
    BY NoneAssumption DEF Locked, TypeOK, TablesOK, CurrentOf, Current
  <2>3. CASE found = {}
    BY <2>3
  <2>4. CASE found # {}
    <3>1. first \in found
      BY <2>4
    <3> QED
      BY <2>1, <2>2, <3>1
  <2> QED
    BY <2>3, <2>4
<1> HIDE DEF y, read, first
<1>8. RegistrationKnows(y)
  BY <1>2, <1>3, <1>4, <1>7 DEF RegistrationKnows
<1>9. ASSUME txn'[t] = y
      PROVE  Knows(t)'
  BY <1>2, <1>3, <1>5, <1>8, <1>9, KnowsAfter DEF Creations, Updates
<1> QED
  BY <1>1, <1>6, <1>9, ReadKeeps DEF y

\* The index entries of the stored rows are occupied.
LEMMA EntriesOccupied ==
    ASSUME NEW t \in Threads
    PROVE  /\ \A a \in DOMAIN applications : Lock("applications_pkey", a) \in Occupied(t)
           /\ \A e \in DOMAIN evaluations :
                  EvaluationEntries(e, evaluations[e]) \subseteq Occupied(t)
           /\ \A p \in DOMAIN promotions :
                  PromotionEntries(p, promotions[p]) \subseteq Occupied(t)
<1> DEFINE A == {Lock("applications_pkey", a) : a \in DOMAIN applications}
           N == {Lock("pg_class", n) : n \in applied}
           V == {VersionEntries(v, [versions[v] EXCEPT !.is_current = @ /\ v # txn[t].previous])
                    : v \in DOMAIN versions}
           E == {EvaluationEntries(e, evaluations[e]) : e \in DOMAIN evaluations}
           P == {PromotionEntries(p, promotions[p]) : p \in DOMAIN promotions}
<1>1. Occupied(t) = A \cup N \cup (UNION V) \cup (UNION E) \cup (UNION P)
  BY DEF Occupied
<1>2. \A a \in DOMAIN applications : Lock("applications_pkey", a) \in A
  OBVIOUS
<1>3. \A e \in DOMAIN evaluations : EvaluationEntries(e, evaluations[e]) \in E
  OBVIOUS
<1>4. \A p \in DOMAIN promotions : PromotionEntries(p, promotions[p]) \in P
  OBVIOUS
<1> HIDE DEF A, N, V, E, P
<1>5. /\ A \subseteq Occupied(t) /\ (UNION V) \subseteq Occupied(t)
      /\ (UNION E) \subseteq Occupied(t) /\ (UNION P) \subseteq Occupied(t)
  BY <1>1
<1>6. \A s : (s \in E => s \subseteq UNION E) /\ (s \in P => s \subseteq UNION P)
  OBVIOUS
<1>7. \A e \in DOMAIN evaluations :
          EvaluationEntries(e, evaluations[e]) \subseteq Occupied(t)
  BY <1>3, <1>5, <1>6
<1>8. \A p \in DOMAIN promotions :
          PromotionEntries(p, promotions[p]) \subseteq Occupied(t)
  BY <1>4, <1>5, <1>6
<1> QED
  BY <1>2, <1>5, <1>7, <1>8

\* Nothing active is like a row whose index entry is free.
LEMMA NoDuplicate ==
    ASSUME NEW t \in Threads, NEW r, r.op \in Creations,
           IF r.op = "create_evaluation"
           THEN Lock("uq_active_evaluation", ActiveEvaluationKey(r.row)) \notin Occupied(t)
           ELSE Lock("uq_active_promotion", ActivePromotionKey(r.row)) \notin Occupied(t)
    PROVE  NothingActive(r)
<1>1. ASSUME r.op = "create_evaluation", NEW e \in DOMAIN evaluations,
             evaluations[e].status \in Store!ActiveEvaluation
      PROVE  ActiveEvaluationKey(evaluations[e]) # ActiveEvaluationKey(r.row)
  <2>1. Lock("uq_active_evaluation", ActiveEvaluationKey(evaluations[e]))
            \in EvaluationEntries(e, evaluations[e])
    BY <1>1 DEF EvaluationEntries, Store!ActiveEvaluation
  <2>2. EvaluationEntries(e, evaluations[e]) \subseteq Occupied(t)
    BY EntriesOccupied
  <2> QED
    BY <1>1, <2>1, <2>2
<1>2. ASSUME r.op # "create_evaluation", NEW p \in DOMAIN promotions,
             promotions[p].status \in Store!ActivePromotion
      PROVE  ActivePromotionKey(promotions[p]) # ActivePromotionKey(r.row)
  <2>1. Lock("uq_active_promotion", ActivePromotionKey(promotions[p]))
            \in PromotionEntries(p, promotions[p])
    BY <1>2 DEF PromotionEntries, Store!ActivePromotion
  <2>2. PromotionEntries(p, promotions[p]) \subseteq Occupied(t)
    BY EntriesOccupied
  <2> QED
    BY <1>2, <2>1, <2>2
<1> QED
  BY <1>1, <1>2 DEF NothingActive

\* The statements of a creation that read or take locks only.
LEMMA CreationReads ==
    ASSUME Locked, NEW t \in Threads,
           \/ (SelectIdentifier(t) /\ txn[t].request.op # "register")
           \/ ValidateVersion(t) \/ SelectDuplicate(t) \/ InsertRow(t) \/ CheckReferences(t)
    PROVE  Locked'
<1> DEFINE x == txn[t]
           r == txn[t].request
           y == Advanced(t, txn[t].row, txn[t].previous)
<1>1. /\ TxnOK
      /\ At(t) \in {"identifier", "version", "duplicate", "insert-row",
                    "check-application", "check-version"}
      /\ txn[t] # Idle /\ Execute(t, txn[t])
  BY AtOpen DEF Locked, TypeOK, SelectIdentifier, ValidateVersion, SelectDuplicate, InsertRow,
                CheckReferences
<1>2. r.op \in Creations /\ r.op # "register" /\ x.at \in Nat
  BY SMTT(30), <1>1, AtNumbers, Kinds
     DEF SelectIdentifier, ValidateVersion, SelectDuplicate, InsertRow, CheckReferences, Last
<1>3. y.at = x.at + 1 /\ y.request = x.request
  BY AdvancedFields
<1>4. CreationKnows(x)
  BY <1>1, <1>2 DEF Locked, Knows
<1> SUFFICES CreationKnows(y)
  BY <1>1, <1>2, SameReadKeeps, Kinds DEF y, Creations, Updates
<1> HIDE DEF y
<1>5. CASE SelectIdentifier(t)
  <2>1. x.at = 2 /\ r.id \notin DOMAIN RowsOf(r)
    BY <1>1, <1>2, <1>5, AtNumbers, Kinds DEF SelectIdentifier
  <2> QED
    BY <1>3, <2>1 DEF CreationKnows
<1>6. CASE ValidateVersion(t)
  <2>1. x.at = 3 /\ VersionStored(r)
    BY <1>1, <1>6, AtNumbers DEF ValidateVersion, VersionStored
  <2> QED
    BY <1>3, <1>4, <2>1 DEF CreationKnows
<1>7. CASE SelectDuplicate(t)
  <2>1. x.at = 4
    BY <1>1, <1>7, AtNumbers DEF SelectDuplicate
  <2>2. NothingActive(r)
    BY <1>2, <1>7, NoDuplicate DEF SelectDuplicate
  <2> QED
    BY <1>3, <1>4, <2>1, <2>2 DEF CreationKnows
<1>8. CASE InsertRow(t) \/ CheckReferences(t)
  <2>1. x.at \in {5, 6, 7}
    BY <1>1, <1>8, AtNumbers DEF InsertRow, CheckReferences
  <2> QED
    BY <1>3, <1>4, <2>1 DEF CreationKnows
<1> QED
  BY <1>5, <1>6, <1>7, <1>8

\* An update reads its row, which permits it.
LEMMA SelectRowKeeps ==
    ASSUME Locked, NEW t \in Threads, SelectRow(t)
    PROVE  Locked'
<1> DEFINE r == txn[t].request
           found == RowsOf(txn[t].request)[txn[t].request.id]
           read == [txn[t] EXCEPT !.row = found]
           y == Advanced(t, found, txn[t].previous)
<1>1. /\ TxnOK /\ At(t) = "row" /\ txn[t] # Idle /\ Execute(t, read)
      /\ r.id \in DOMAIN RowsOf(r) /\ Permitted(r, found)
  BY AtOpen DEF Locked, TypeOK, SelectRow
<1>2. r.op \in Updates /\ r.op \notin {"register", "migrate"} \cup Creations /\ txn[t].at = 1
  BY <1>1, AtNumbers, Kinds
<1>3. y.at = 2 /\ y.request = r /\ y.row = found
  BY <1>2, AdvancedFields
<1>4. OwnRow(r) \in Selected(t)
  BY <1>1 DEF OwnRow, Selected
<1>5. UNCHANGED <<tables, applied>>
  BY <1>1 DEF Execute
<1>6. /\ ReadOf(t, read) /\ read.row = found /\ read.previous = txn[t].previous
  BY <1>1, ReadShapes
<1> HIDE DEF y, read
<1>7. UpdateKnows(y)
  BY <1>1, <1>3 DEF UpdateKnows
<1>8. ASSUME txn'[t] = y
      PROVE  Knows(t)'
  BY <1>2, <1>3, <1>5, <1>7, <1>8, KnowsAfter
<1> QED
  BY <1>1, <1>4, <1>6, <1>8, ReadKeeps DEF y

\* An update finds its row as it has read it.
LEMMA UpdateRowKeeps ==
    ASSUME Locked, NEW t \in Threads, UpdateRow(t)
    PROVE  Locked'
<1> DEFINE r == txn[t].request
           y == Advanced(t, txn[t].row, txn[t].previous)
<1>1. TxnOK /\ At(t) = "update" /\ txn[t] # Idle /\ Execute(t, txn[t])
  BY AtOpen DEF Locked, TypeOK, UpdateRow
<1>2. r.op \in Updates /\ r.op \notin {"register", "migrate"} \cup Creations /\ txn[t].at = 2
  BY <1>1, AtNumbers, Kinds
<1>3. y.at = 3 /\ y.request = r /\ y.row = txn[t].row
  BY <1>2, AdvancedFields
<1>4. UpdateKnows(txn[t])
  BY <1>1, <1>2 DEF Locked, Knows
<1> HIDE DEF y
<1>5. UpdateKnows(y)
  BY <1>2, <1>3, <1>4 DEF UpdateKnows
<1> QED
  BY <1>1, <1>2, <1>5, SameReadKeeps DEF y

-----------------------------------------------------------------------------
(* Commits *)

\* What a transaction at its commit holds and knows, and how it ends.
LEMMA CommitFacts ==
    ASSUME Locked, NEW t \in Threads, NEW op, Commit(t, op)
    PROVE  LET x == txn[t]
           IN  /\ TxnOK /\ x # Idle /\ x.request.op \in op
               /\ x.request \in Requests \cup {Migrate} /\ x.at = Last(x.request.op)
               /\ Holds(x) /\ Knows(t)
               /\ txn' = [u \in Threads |-> IF u = t THEN Idle ELSE txn[u]]
<1>1. TxnOK /\ At(t) = "commit" /\ txn[t] # Idle
  BY AtOpen DEF Locked, TypeOK, Commit
<1>2. txn[t].at = Last(txn[t].request.op)
  BY <1>1, AtNumbers
<1>3. txn[t].request \in Requests \cup {Migrate}
  BY <1>1, Positions
<1>4. txn' = [u \in Threads |-> IF u = t THEN Idle ELSE txn[u]]
  BY <1>1 DEF Commit, TxnOK
<1> QED
  BY <1>1, <1>2, <1>3, <1>4 DEF Locked, Commit

\* A commit that keeps the tables in order and the knowledge of the others.
LEMMA CommitKeeps ==
    ASSUME Locked, NEW t \in Threads, NEW op, Commit(t, op),
           instance' = [i \in Instances |-> instance'[i]],
           TablesOK', VersionsOK', AppliedOK',
           \A u \in Threads \ {t} : txn[u] # Idle /\ txn'[u] = txn[u] => Knows(u)'
    PROVE  Locked'
<1>1. txn' = [u \in Threads |-> IF u = t THEN Idle ELSE txn[u]]
  BY CommitFacts
<1>2. \A u \in Threads : txn'[u] = IF u = t THEN Idle ELSE txn[u]
  BY <1>1
<1>3. Shaped(Idle) /\ Idle.exclusive = {}
  BY DEF Shaped, Idle
<1>4. TxnOK' /\ LocksDisjoint'
  BY <1>1, <1>2, <1>3 DEF Locked, TypeOK, TxnOK, Shaped, Placed, LocksDisjoint
<1>5. ASSUME NEW u \in Threads, txn'[u] # Idle
      PROVE  Holds(txn[u])' /\ Knows(u)'
  <2>1. u # t /\ txn'[u] = txn[u]
    BY <1>2, <1>5
  <2>2. Holds(txn[u])
    BY <1>5, <2>1 DEF Locked
  <2>3. Holds(txn[u])'
    BY <2>1, <2>2
  <2> QED
    BY <1>5, <2>1, <2>3
<1> QED
  BY <1>4, <1>5 DEF Locked, TypeOK

\* Two transactions past their locks do not work on the same application, identifier,
\* active key or row.
LEMMA Apart ==
    ASSUME Locked, NEW t \in Threads, NEW u \in Threads \ {t},
           txn[t] # Idle, txn[u] # Idle, txn[t].at > 1, txn[u].at > 1
    PROVE  LET r == txn[t].request
               s == txn[u].request
           IN  /\ r.op = "register" /\ s.op = "register" =>
                      r.id # s.id /\ r.row.application_id # s.row.application_id
               /\ r.op = "create_evaluation" /\ s.op = "create_evaluation" =>
                      r.id # s.id /\ ActiveEvaluationKey(r.row) # ActiveEvaluationKey(s.row)
               /\ r.op = "create_promotion" /\ s.op = "create_promotion" =>
                      r.id # s.id /\ ActivePromotionKey(r.row) # ActivePromotionKey(s.row)
               /\ ~(r.op = "migrate" /\ s.op = "migrate")
               /\ r.op = "update_evaluation" /\ s.op = "update_evaluation" => r.id # s.id
               /\ {r.op, s.op} \subseteq Updates \ {"update_evaluation"} => r.id # s.id
<1> DEFINE r == txn[t].request
           s == txn[u].request
<1>1. txn[t].exclusive \cap txn[u].exclusive = {}
  BY DEF Locked, LocksDisjoint
<1>2. /\ r.op \notin Updates => {First(r), Second(r)} \subseteq txn[t].exclusive
      /\ r.op \in Updates => OwnRow(r) \in txn[t].exclusive
      /\ s.op \notin Updates => {First(s), Second(s)} \subseteq txn[u].exclusive
      /\ s.op \in Updates => OwnRow(s) \in txn[u].exclusive
  BY DEF Locked, Holds
<1> HIDE DEF r, s
<1>3. /\ {r.op, s.op} \cap Updates = {} => First(r) # First(s) /\ Second(r) # Second(s)
      /\ {r.op, s.op} \subseteq Updates => OwnRow(r) # OwnRow(s)
  BY <1>1, <1>2
<1>4. ASSUME r.op = "register", s.op = "register"
      PROVE  r.id # s.id /\ r.row.application_id # s.row.application_id
  BY <1>3, <1>4 DEF First, Second, Updates
<1>5. ASSUME r.op = "create_evaluation", s.op = "create_evaluation"
      PROVE  r.id # s.id /\ ActiveEvaluationKey(r.row) # ActiveEvaluationKey(s.row)
  BY <1>3, <1>5 DEF First, Second, Updates
<1>6. ASSUME r.op = "create_promotion", s.op = "create_promotion"
      PROVE  r.id # s.id /\ ActivePromotionKey(r.row) # ActivePromotionKey(s.row)
  BY <1>3, <1>6 DEF First, Second, Updates
<1>7. ~(r.op = "migrate" /\ s.op = "migrate")
  BY <1>3 DEF First, Updates
<1>8. r.op = "update_evaluation" /\ s.op = "update_evaluation" => r.id # s.id
  BY <1>3 DEF OwnRow, Updates
<1>9. {r.op, s.op} \subseteq Updates \ {"update_evaluation"} => r.id # s.id
  BY <1>3 DEF OwnRow
<1> QED
  BY <1>4, <1>5, <1>6, <1>7, <1>8, <1>9 DEF r, s

\* What a commit of a registration does to the versions and the applications.
LEMMA RegistrationEffect ==
    ASSUME Locked, NEW t \in Threads, CommitRegistration(t)
    PROVE  LET v == txn[t].request.row
               vid == txn[t].request.id
           IN  /\ v \in NewVersion /\ vid \in VersionIds \ DOMAIN versions
               /\ DOMAIN versions' = DOMAIN versions \cup {vid}
               /\ versions' \in [DOMAIN versions' -> Store!Version]
               /\ versions'[vid] = v
               /\ \A w \in DOMAIN versions :
                     /\ versions[w] \in Store!Version
                     /\ versions'[w] = [versions[w] EXCEPT !.is_current =
                                           @ /\ PointerOf(versions[w]) # PointerOf(v)]
                     /\ EvidenceOf(versions'[w]) = EvidenceOf(versions[w])
                     /\ PointerOf(versions'[w]) = PointerOf(versions[w])
                     /\ versions'[w].application_id = versions[w].application_id
                     /\ versions'[w].git_repository = versions[w].git_repository
               /\ Current' = {w \in Current : PointerOf(versions[w]) # PointerOf(v)} \cup {vid}
               /\ DOMAIN applications' = DOMAIN applications \cup {v.application_id}
               /\ applications' \in [DOMAIN applications' -> Store!Application]
               /\ \A a \in DOMAIN applications \ {v.application_id} :
                     applications'[a] = applications[a]
<1> DEFINE x == txn[t]
           v == txn[t].request.row
           vid == txn[t].request.id
           previous == txn[t].previous
           demoted == IF previous = None THEN versions
                      ELSE [versions EXCEPT ![previous].is_current = FALSE]
<1>1. /\ x.request.op = "register" /\ x # Idle /\ x.at = 8
      /\ x.request \in Requests \cup {Migrate}
  BY SMTT(30), CommitFacts DEF CommitRegistration, Last
<1>2. v \in NewVersion /\ vid \in VersionIds
  BY <1>1, RequestKinds
<1>3. RegistrationKnows(x)
  BY <1>1 DEF Locked, Knows
<1>4. /\ vid \notin DOMAIN versions
      /\ x.row = StoredApplication(v.application_id)
      /\ {previous} \ {None} = CurrentOf(v)
  BY <1>1, <1>3 DEF RegistrationKnows
<1>5. /\ versions = [w \in DOMAIN versions |-> versions[w]]
      /\ \A w \in DOMAIN versions : versions[w] \in Store!Version
  BY DEF Locked, TypeOK, TablesOK
<1>6. v \in Store!Version /\ v.is_current /\ v.is_current = TRUE
  BY <1>2 DEF NewVersion, Store!Version
<1>7. [v EXCEPT !.is_current = TRUE] = v
  BY <1>6 DEF Store!Version
<1>8. versions' = [w \in DOMAIN demoted \cup {vid} |-> IF w = vid THEN v ELSE demoted[w]]
  BY <1>7 DEF CommitRegistration, Store!Put
<1> HIDE DEF v
<1>9. ASSUME NEW w \in DOMAIN versions
      PROVE  /\ demoted[w] = [versions[w] EXCEPT !.is_current =
                                 @ /\ PointerOf(versions[w]) # PointerOf(v)]
             /\ demoted[w] \in Store!Version
             /\ demoted[w].is_current
                    = (versions[w].is_current /\ PointerOf(versions[w]) # PointerOf(v))
             /\ EvidenceOf(demoted[w]) = EvidenceOf(versions[w])
             /\ PointerOf(demoted[w]) = PointerOf(versions[w])
             /\ demoted[w].application_id = versions[w].application_id
             /\ demoted[w].git_repository = versions[w].git_repository
  <2>1. versions[w].is_current /\ PointerOf(versions[w]) = PointerOf(v)
            <=> w = previous /\ previous # None
    <3>1. w \in CurrentOf(v) <=> versions[w].is_current /\ PointerOf(versions[w]) = PointerOf(v)
      BY DEF CurrentOf, Current
    <3> QED
      BY <3>1, <1>4
  <2>2. versions[w].is_current \in BOOLEAN
    BY <1>5 DEF Store!Version
  <2>3. demoted[w] = IF w = previous /\ previous # None
                     THEN [versions[w] EXCEPT !.is_current = FALSE] ELSE versions[w]
    BY <1>5
  <2> HIDE DEF demoted, previous
  <2>4. CASE versions[w].is_current /\ PointerOf(versions[w]) = PointerOf(v)
    <3>1. demoted[w] = [versions[w] EXCEPT !.is_current = FALSE]
      BY <2>1, <2>3, <2>4
    <3>2. (versions[w].is_current /\ PointerOf(versions[w]) # PointerOf(v)) = FALSE
      BY <2>4
    <3> QED
      BY <3>1, <3>2, <1>5 DEF Store!Version, EvidenceOf, PointerOf
  <2>5. CASE ~(versions[w].is_current /\ PointerOf(versions[w]) = PointerOf(v))
    <3>1. demoted[w] = versions[w]
      BY <2>1, <2>3, <2>5
    <3>2. (versions[w].is_current /\ PointerOf(versions[w]) # PointerOf(v))
              = versions[w].is_current
      BY <2>2, <2>5
    <3> QED
      BY <3>1, <3>2, <1>5 DEF Store!Version, EvidenceOf, PointerOf
  <2> QED
    BY <2>4, <2>5
<1>10. DOMAIN demoted = DOMAIN versions
  BY <1>5
<1> HIDE DEF demoted
<1>11. /\ DOMAIN versions' = DOMAIN versions \cup {vid}
       /\ versions'[vid] = v
       /\ \A w \in DOMAIN versions : versions'[w] = demoted[w]
  BY <1>4, <1>8, <1>10
<1>12. versions' \in [DOMAIN versions' -> Store!Version]
  BY <1>6, <1>8, <1>9, <1>10, <1>11
<1>13. Current' = {w \in Current : PointerOf(versions[w]) # PointerOf(v)} \cup {vid}
  <2>1. \A w \in DOMAIN versions :
            versions'[w].is_current
                <=> versions[w].is_current /\ PointerOf(versions[w]) # PointerOf(v)
    BY <1>9, <1>11
  <2> QED
    BY <1>4, <1>6, <1>11, <2>1 DEF Current
<1>14. /\ DOMAIN applications' = DOMAIN applications \cup {v.application_id}
       /\ applications' \in [DOMAIN applications' -> Store!Application]
       /\ \A a \in DOMAIN applications \ {v.application_id} : applications'[a] = applications[a]
  <2> DEFINE merged == MergedApplication(x.row, v)
  <2>1. merged \in Store!Application
    <3>1. v.registered_at \in Times
      BY <1>6 DEF Store!Version
    <3>2. x.row = None \/ x.row \in Store!Application
      BY <1>4 DEF StoredApplication, Locked, TypeOK, TablesOK
    <3> QED
      BY <3>1, <3>2 DEF MergedApplication, Store!Application, Store!Later, Store!RowVersion
  <2>2. applications' = [a \in DOMAIN applications \cup {v.application_id} |->
                            IF a = v.application_id THEN merged ELSE applications[a]]
    BY DEF CommitRegistration, Store!Put, v
  <2>3. applications \in [DOMAIN applications -> Store!Application]
    BY DEF Locked, TypeOK, TablesOK
  <2> HIDE DEF merged
  <2> QED
    BY <2>1, <2>2, <2>3
<1>15. \A w \in DOMAIN versions :
           /\ versions[w] \in Store!Version
           /\ versions'[w] = [versions[w] EXCEPT !.is_current =
                                 @ /\ PointerOf(versions[w]) # PointerOf(v)]
           /\ EvidenceOf(versions'[w]) = EvidenceOf(versions[w])
           /\ PointerOf(versions'[w]) = PointerOf(versions[w])
           /\ versions'[w].application_id = versions[w].application_id
           /\ versions'[w].git_repository = versions[w].git_repository
  BY <1>5, <1>9, <1>11, Zenon
<1> QED
  BY <1>2, <1>4, <1>11, <1>12, <1>13, <1>14, <1>15 DEF v

\* A registration changes what others have read only where their locks forbid it.
LEMMA RegistrationKeeps ==
    ASSUME Locked, NEW t \in Threads, CommitRegistration(t)
    PROVE  Locked'
<1> DEFINE v == txn[t].request.row
           vid == txn[t].request.id
<1>1. /\ v \in NewVersion /\ vid \in VersionIds \ DOMAIN versions
      /\ DOMAIN versions' = DOMAIN versions \cup {vid}
      /\ versions' \in [DOMAIN versions' -> Store!Version]
      /\ versions'[vid] = v
      /\ DOMAIN applications' = DOMAIN applications \cup {v.application_id}
      /\ applications' \in [DOMAIN applications' -> Store!Application]
      /\ \A a \in DOMAIN applications \ {v.application_id} : applications'[a] = applications[a]
  BY RegistrationEffect
<1>2. \A w \in DOMAIN versions :
          /\ EvidenceOf(versions'[w]) = EvidenceOf(versions[w])
          /\ PointerOf(versions'[w]) = PointerOf(versions[w])
          /\ versions'[w].application_id = versions[w].application_id
          /\ versions'[w].git_repository = versions[w].git_repository
  BY RegistrationEffect, Zenon
<1>3. Current' = {w \in Current : PointerOf(versions[w]) # PointerOf(v)} \cup {vid}
  BY RegistrationEffect, Zenon
<1>4. /\ Commit(t, {"register"})
      /\ evaluations' = evaluations /\ promotions' = promotions
      /\ applied' = applied /\ instance' = instance
  BY DEF CommitRegistration
<1>5. /\ txn[t].request.op = "register" /\ txn[t] # Idle /\ txn[t].at = 8 /\ TxnOK
      /\ Knows(t)
  BY <1>4, CommitFacts DEF Last
<1>6. \A w \in DOMAIN versions : EvidenceOf(versions[w]) # EvidenceOf(v)
  BY <1>5 DEF Knows, RegistrationKnows
<1>7. v.application_id \in AppIds
  BY <1>1 DEF NewVersion, Store!Version
<1>8. TablesOK'
  BY <1>1, <1>4, <1>7 DEF Locked, TypeOK, TablesOK
<1> HIDE DEF v, vid
<1>9. VersionsOK'
  <2>1. ASSUME NEW a \in DOMAIN versions', NEW b \in DOMAIN versions',
               EvidenceOf(versions'[a]) = EvidenceOf(versions'[b])
        PROVE  a = b
    <3>1. CASE a \in DOMAIN versions /\ b \in DOMAIN versions
      BY <1>2, <2>1, <3>1 DEF Locked, VersionsOK
    <3>2. CASE a = vid \/ b = vid
      BY <1>1, <1>2, <1>6, <2>1, <3>2
    <3> QED
      BY <1>1, <3>1, <3>2
  <2>2. ASSUME NEW a \in Current', NEW b \in Current',
               PointerOf(versions'[a]) = PointerOf(versions'[b])
        PROVE  a = b
    <3>1. CASE a \in Current /\ b \in Current
      BY <1>2, <2>2, <3>1 DEF Locked, VersionsOK, Current
    <3>2. \A w \in Current' : w = vid \/ (w \in Current /\ PointerOf(versions'[w]) # PointerOf(v))
      BY <1>2, <1>3 DEF Current
    <3> QED
      BY <1>1, <2>2, <3>1, <3>2
  <2>3. \A w \in DOMAIN versions' : versions'[w].application_id \in DOMAIN applications'
    BY <1>1, <1>2 DEF Locked, VersionsOK
  <2> QED
    BY <2>1, <2>2, <2>3 DEF VersionsOK, EvidenceOf, PointerOf
<1>10. AppliedOK'
  BY <1>4 DEF Locked, AppliedOK
<1>11. ASSUME NEW u \in Threads \ {t}, txn[u] # Idle, txn'[u] = txn[u]
       PROVE  Knows(u)'
  <2>0. PICK x : x = txn[u]
    OBVIOUS
  <2> DEFINE s == x.request
  <2>1. Knows(u) /\ x.at \in 1 .. Last(s.op)
        /\ s.op \in {"register", "migrate"} \cup Creations \cup Updates
    BY <1>5, <1>11, <2>0, AtNumbers DEF Locked
  <2>2. s.op = "register" /\ x.at > 1 =>
            vid # s.id /\ v.application_id # s.row.application_id
    BY <1>5, <1>11, <2>0, Apart DEF v, vid
  <2>3. CASE s.op = "register"
    <3>1. RegistrationKnows(x)
      BY <2>0, <2>1, <2>3 DEF Knows
    <3>2. CASE x.at = 1
      BY <1>11, <2>0, <2>3, <3>2 DEF Knows, RegistrationKnows, Creations, Updates
    <3>3. CASE x.at > 1
      <4> DEFINE app == s.row.application_id
      <4>1. vid # s.id /\ v.application_id # app
        BY <2>2, <2>3, <3>3
      <4>2. /\ EvidenceOf(v) # EvidenceOf(s.row) /\ PointerOf(v) # PointerOf(s.row)
        BY <4>1 DEF EvidenceOf, PointerOf
      <4> HIDE DEF app
      <4>3. x.at > 2 => \A w \in DOMAIN versions' : EvidenceOf(versions'[w]) # EvidenceOf(s.row)
        BY <1>1, <1>2, <3>1, <4>2 DEF RegistrationKnows
      <4>4. x.at > 3 => s.id \notin DOMAIN versions'
        BY <1>1, <3>1, <4>1 DEF RegistrationKnows
      <4>5. StoredApplication(app)' = StoredApplication(app)
        BY <1>1, <4>1 DEF StoredApplication
      <4>6. x.at > 4 => x.row = StoredApplication(app)'
        BY <3>1, <4>5 DEF RegistrationKnows, app
      <4>7. {w \in DOMAIN versions' : versions'[w].application_id = app}
                = {w \in DOMAIN versions : versions[w].application_id = app}
        BY <1>1, <1>2, <4>1
      <4>8. RepositoryAllowed(s.row) => RepositoryAllowed(s.row)'
        BY <1>2, <4>7 DEF RepositoryAllowed, app
      <4>9. {w \in Current' : PointerOf(versions'[w]) = PointerOf(s.row)}
                = {w \in Current : PointerOf(versions[w]) = PointerOf(s.row)}
        <5>1. Current \subseteq DOMAIN versions
          BY DEF Current
        <5> QED
          BY <1>1, <1>2, <1>3, <4>2, <5>1
      <4>10. CurrentOf(s.row)' = CurrentOf(s.row)
        BY <4>9 DEF CurrentOf, PointerOf
      <4>11. RegistrationKnows(x)'
        BY <1>11, <2>0, <3>1, <4>3, <4>4, <4>6, <4>8, <4>10
           DEF RegistrationKnows, EvidenceOf, app
      <4> QED
        BY <1>11, <2>0, <2>3, <4>11 DEF Knows, Creations, Updates
    <3> QED
      BY <2>1, <3>2, <3>3 DEF Last
  <2>4. CASE s.op \in Creations
    <3>1. CreationKnows(x)
      BY <2>0, <2>1, <2>4 DEF Knows
    <3>2. RowsOf(s)' = RowsOf(s) /\ (NothingActive(s) => NothingActive(s)')
      BY <1>4, <1>11, <2>0 DEF RowsOf, NothingActive, ActiveEvaluationKey, ActivePromotionKey
    <3>3. VersionStored(s) => VersionStored(s)'
      BY <1>1, <1>2, <1>11, <2>0 DEF VersionStored, PointerOf
    <3>4. CreationKnows(x)'
      BY <1>11, <2>0, <3>1, <3>2, <3>3 DEF CreationKnows
    <3> QED
      BY <1>11, <2>0, <2>1, <2>4, <3>4, Kinds DEF Knows, Creations, Updates
  <2>5. CASE s.op \in Updates
    <3>1. UpdateKnows(x)
      BY <2>0, <2>1, <2>5 DEF Knows
    <3>2. UpdateKnows(x)'
      BY <1>4, <1>11, <2>0, <3>1 DEF UpdateKnows, RowsOf, Permitted
    <3> QED
      BY <1>11, <2>0, <2>1, <2>5, <3>2, Kinds DEF Knows
  <2>6. CASE s.op = "migrate"
    BY <1>4, <1>11, <2>0, <2>1, <2>6 DEF Knows, MigrationKnows, Creations, Updates
  <2> QED
    BY <2>1, <2>3, <2>4, <2>5, <2>6
<1>12. instance' = [i \in Instances |-> instance'[i]]
  BY <1>4 DEF Locked, TypeOK
<1> QED
  BY <1>4, <1>8, <1>9, <1>10, <1>11, <1>12, CommitKeeps

\* A commit on an evaluation or a promotion leaves the registry to the others, and what
\* the operations on the other table know.
LEMMA OtherTable ==
    ASSUME TxnOK, NEW u \in Threads, txn[u] # Idle, Knows(u), txn'[u] = txn[u],
           UNCHANGED <<applications, versions, applied>>,
           \/ txn[u].request.op \in {"register", "migrate"}
           \/ txn[u].request.op \in Creations \cup Updates
                  /\ RowsOf(txn[u].request)' = RowsOf(txn[u].request)
    PROVE  Knows(u)'
<1>0. PICK x : x = txn[u]
  OBVIOUS
<1> DEFINE s == x.request
<1>1. s.op \in {"register", "migrate"} \cup Creations \cup Updates
  BY <1>0, AtNumbers
<1>2. CASE s.op = "register"
  <2>1. RegistrationKnows(x)
    BY <1>0, <1>2 DEF Knows
  <2>2. RegistrationKnows(x)'
    BY <1>0, <2>1 DEF RegistrationKnows, StoredApplication, RepositoryAllowed, CurrentOf,
                      Current, EvidenceOf, PointerOf
  <2> QED
    BY <1>0, <1>2, <2>2 DEF Knows, Creations, Updates
<1>3. CASE s.op = "migrate"
  BY <1>0, <1>3 DEF Knows, MigrationKnows, Creations, Updates
<1>4. CASE s.op \in Creations
  <2>1. CreationKnows(x) /\ RowsOf(s)' = RowsOf(s)
    BY <1>0, <1>1, <1>4, Kinds DEF Knows
  <2>2. s.op = "create_evaluation" \/ s.op = "create_promotion"
    BY <1>4 DEF Creations
  <2>3. NothingActive(s) => NothingActive(s)'
    BY <1>0, <2>1, <2>2 DEF NothingActive, RowsOf, ActiveEvaluationKey, ActivePromotionKey
  <2>4. VersionStored(s) => VersionStored(s)'
    BY <1>0 DEF VersionStored, PointerOf
  <2>5. CreationKnows(x)'
    BY <1>0, <2>1, <2>3, <2>4 DEF CreationKnows
  <2> QED
    BY <1>0, <1>1, <1>4, <2>5, Kinds DEF Knows, Creations, Updates
<1>5. CASE s.op \in Updates
  <2>1. UpdateKnows(x) /\ RowsOf(s)' = RowsOf(s)
    BY <1>0, <1>1, <1>5, Kinds DEF Knows
  <2>2. UpdateKnows(x)'
    BY <1>0, <2>1 DEF UpdateKnows, Permitted
  <2> QED
    BY <1>0, <1>1, <1>5, <2>2, Kinds DEF Knows
<1> QED
  BY <1>1, <1>2, <1>3, <1>4, <1>5

\* A new evaluation is of a version and an identifier nobody else is creating for.
LEMMA EvaluationCreatedKeeps ==
    ASSUME Locked, NEW t \in Threads, CommitEvaluationCreated(t)
    PROVE  Locked'
<1> DEFINE r == txn[t].request
<1>1. /\ Commit(t, {"create_evaluation"})
      /\ evaluations' = [e \in DOMAIN evaluations \cup {r.id} |->
                            IF e = r.id THEN r.row ELSE evaluations[e]]
      /\ applications' = applications /\ versions' = versions /\ promotions' = promotions
      /\ applied' = applied /\ instance' = instance
  BY DEF CommitEvaluationCreated, registry, Store!Put
<1>2. /\ TxnOK /\ r.op = "create_evaluation" /\ txn[t] # Idle /\ txn[t].at = 8 /\ Knows(t)
      /\ r \in Requests \cup {Migrate}
  BY <1>1, CommitFacts DEF Last, Creations
<1>3. r.id \in EvaluationIds /\ r.row \in Store!Evaluation
  BY <1>2, RequestKinds DEF NewEvaluation
<1>4. r.id \notin DOMAIN evaluations
  BY <1>2 DEF Knows, CreationKnows, RowsOf, Creations
<1>5. TablesOK'
  BY <1>1, <1>3 DEF Locked, TypeOK, TablesOK
<1>6. VersionsOK' /\ AppliedOK'
  BY <1>1 DEF Locked, VersionsOK, AppliedOK, Current, EvidenceOf, PointerOf
<1>7. PICK id, row : id = r.id /\ row = r.row
  OBVIOUS
<1>8. ASSUME NEW u \in Threads \ {t}, txn[u] # Idle, txn'[u] = txn[u]
      PROVE  Knows(u)'
  <2>0. PICK x : x = txn[u]
    OBVIOUS
  <2> DEFINE s == x.request
  <2>1. /\ Knows(u) /\ x.at \in 1 .. Last(s.op)
        /\ s.op \in {"register", "migrate"} \cup Creations \cup Updates
    BY <1>2, <1>8, <2>0, AtNumbers DEF Locked
  <2>2. s.op = "create_evaluation" /\ x.at > 1 =>
            id # s.id /\ ActiveEvaluationKey(row) # ActiveEvaluationKey(s.row)
    BY <1>2, <1>7, <1>8, <2>0, Apart
  <2>3. CASE s.op \notin {"create_evaluation", "update_evaluation"}
    <3>1. RowsOf(s)' = RowsOf(s)
      BY <1>1, <2>3 DEF RowsOf
    <3> QED
      BY <1>1, <1>2, <1>8, <2>0, <2>1, <3>1, OtherTable
  <2>4. CASE s.op = "create_evaluation"
    <3>1. CreationKnows(x)
      BY <2>0, <2>1, <2>4 DEF Knows, Creations
    <3>2. CASE x.at = 1
      BY <1>8, <2>0, <2>4, <3>2 DEF Knows, CreationKnows, Creations, Updates
    <3>3. CASE x.at > 1
      <4>1. x.at > 2 => s.id \notin DOMAIN RowsOf(s)'
        BY <1>1, <1>7, <2>2, <2>4, <3>1, <3>3 DEF CreationKnows, RowsOf
      <4>2. VersionStored(s) => VersionStored(s)'
        BY <1>1 DEF VersionStored, PointerOf
      <4>3. NothingActive(s) => NothingActive(s)'
        BY <1>1, <1>7, <2>2, <2>4, <3>3 DEF NothingActive, ActiveEvaluationKey
      <4>4. CreationKnows(x)'
        BY <3>1, <4>1, <4>2, <4>3 DEF CreationKnows
      <4> QED
        BY <1>8, <2>0, <2>4, <4>4 DEF Knows, Creations, Updates
    <3> QED
      BY <2>1, <3>2, <3>3 DEF Last
  <2>5. CASE s.op = "update_evaluation"
    <3>1. UpdateKnows(x)
      BY <2>0, <2>1, <2>5 DEF Knows, Updates
    <3>2. UpdateKnows(x)'
      BY <1>1, <1>4, <2>5, <3>1 DEF UpdateKnows, RowsOf, Permitted
    <3> QED
      BY <1>8, <2>0, <2>5, <3>2 DEF Knows, Creations, Updates
  <2> QED
    BY <2>3, <2>4, <2>5
<1>9. instance' = [i \in Instances |-> instance'[i]]
  BY <1>1 DEF Locked, TypeOK
<1> QED
  BY <1>1, <1>5, <1>6, <1>8, <1>9, CommitKeeps

\* A new promotion request, likewise.
LEMMA PromotionCreatedKeeps ==
    ASSUME Locked, NEW t \in Threads, CommitPromotionCreated(t)
    PROVE  Locked'
<1> DEFINE r == txn[t].request
<1>1. /\ Commit(t, {"create_promotion"})
      /\ promotions' = [p \in DOMAIN promotions \cup {r.id} |->
                            IF p = r.id THEN r.row ELSE promotions[p]]
      /\ applications' = applications /\ versions' = versions /\ evaluations' = evaluations
      /\ applied' = applied /\ instance' = instance
  BY DEF CommitPromotionCreated, registry, Store!Put
<1>2. /\ TxnOK /\ r.op = "create_promotion" /\ txn[t] # Idle /\ txn[t].at = 8 /\ Knows(t)
      /\ r \in Requests \cup {Migrate}
  BY <1>1, CommitFacts DEF Last, Creations
<1>3. r.id \in PromotionIds /\ r.row \in Store!Promotion
  BY <1>2, RequestKinds DEF NewPromotion
<1>4. r.id \notin DOMAIN promotions
  BY <1>2 DEF Knows, CreationKnows, RowsOf, Creations
<1>5. TablesOK'
  BY <1>1, <1>3 DEF Locked, TypeOK, TablesOK
<1>6. VersionsOK' /\ AppliedOK'
  BY <1>1 DEF Locked, VersionsOK, AppliedOK, Current, EvidenceOf, PointerOf
<1>7. PICK id, row : id = r.id /\ row = r.row
  OBVIOUS
<1>8. ASSUME NEW u \in Threads \ {t}, txn[u] # Idle, txn'[u] = txn[u]
      PROVE  Knows(u)'
  <2>0. PICK x : x = txn[u]
    OBVIOUS
  <2> DEFINE s == x.request
  <2>1. /\ Knows(u) /\ x.at \in 1 .. Last(s.op)
        /\ s.op \in {"register", "migrate"} \cup Creations \cup Updates
    BY <1>2, <1>8, <2>0, AtNumbers DEF Locked
  <2>2. s.op = "create_promotion" /\ x.at > 1 =>
            id # s.id /\ ActivePromotionKey(row) # ActivePromotionKey(s.row)
    BY <1>2, <1>7, <1>8, <2>0, Apart
  <2>3. CASE s.op \notin {"create_promotion"} \cup (Updates \ {"update_evaluation"})
    <3>1. s.op \in Creations \cup Updates => RowsOf(s)' = RowsOf(s)
      BY <1>1, <2>3 DEF RowsOf, Creations, Updates
    <3> QED
      BY <1>1, <1>2, <1>8, <2>0, <2>1, <3>1, OtherTable
  <2>4. CASE s.op = "create_promotion"
    <3>1. CreationKnows(x)
      BY <2>0, <2>1, <2>4 DEF Knows, Creations
    <3>2. CASE x.at = 1
      BY <1>8, <2>0, <2>4, <3>2 DEF Knows, CreationKnows, Creations, Updates
    <3>3. CASE x.at > 1
      <4>1. x.at > 2 => s.id \notin DOMAIN RowsOf(s)'
        BY <1>1, <1>7, <2>2, <2>4, <3>1, <3>3 DEF CreationKnows, RowsOf
      <4>2. VersionStored(s) => VersionStored(s)'
        BY <1>1 DEF VersionStored, PointerOf
      <4>3. NothingActive(s) => NothingActive(s)'
        BY <1>1, <1>7, <2>2, <2>4, <3>3 DEF NothingActive, ActivePromotionKey
      <4>4. CreationKnows(x)'
        BY <3>1, <4>1, <4>2, <4>3 DEF CreationKnows
      <4> QED
        BY <1>8, <2>0, <2>4, <4>4 DEF Knows, Creations, Updates
    <3> QED
      BY <2>1, <3>2, <3>3 DEF Last
  <2>5. CASE s.op \in Updates \ {"update_evaluation"}
    <3>1. UpdateKnows(x)
      BY <2>0, <2>1, <2>5 DEF Knows, Updates
    <3>2. UpdateKnows(x)'
      BY <1>1, <1>4, <2>5, <3>1 DEF UpdateKnows, RowsOf, Permitted
    <3> QED
      BY <1>8, <2>0, <2>5, <3>2 DEF Knows, Creations, Updates
  <2> QED
    BY <2>3, <2>4, <2>5
<1>9. instance' = [i \in Instances |-> instance'[i]]
  BY <1>1 DEF Locked, TypeOK
<1> QED
  BY <1>1, <1>5, <1>6, <1>8, <1>9, CommitKeeps

\* What an update of an evaluation stores.
LEMMA UpdatedEvaluationRow ==
    ASSUME Locked, NEW t \in Threads, CommitEvaluationUpdated(t)
    PROVE  LET r == txn[t].request
               old == evaluations[r.id]
               new == evaluations'[r.id]
           IN  /\ r.id \in DOMAIN evaluations
               /\ evaluations' = [evaluations EXCEPT ![r.id] = new]
               /\ old \in Store!Evaluation /\ new \in Store!Evaluation
               /\ new = [old EXCEPT !.status = r.status, !.job_run_id = r.run,
                                    !.summary = r.summary, !.row_version = @ + 1]
               /\ ActiveEvaluationKey(new) = ActiveEvaluationKey(old)
               /\ new.status = r.status /\ Permitted(r, old)
               /\ new.status \in Store!ActiveEvaluation => old.status \in Store!ActiveEvaluation
<1> DEFINE r == txn[t].request
           old == evaluations[r.id]
<1>1. Commit(t, {"update_evaluation"})
  BY DEF CommitEvaluationUpdated
<1>2. /\ r.op = "update_evaluation" /\ txn[t].at = 3 /\ Knows(t)
      /\ r \in Requests \cup {Migrate}
  BY <1>1, CommitFacts DEF Last, Creations
<1>3. r.id \in DOMAIN evaluations /\ txn[t].row = old /\ Permitted(r, old)
  BY <1>2 DEF Knows, UpdateKnows, RowsOf, Updates
<1>4. /\ r.status \in Store!EvaluationStatus /\ r.run \in JobRunIds \cup {None}
      /\ r.summary \in Summaries \cup {None}
  BY <1>2, RequestKinds
<1>5. old \in Store!Evaluation /\ evaluations = [e \in DOMAIN evaluations |-> evaluations[e]]
  BY <1>3 DEF Locked, TypeOK, TablesOK
<1>6. PICK new : new = [old EXCEPT !.status = r.status, !.job_run_id = r.run,
                                   !.summary = r.summary, !.row_version = @ + 1]
  OBVIOUS
<1>7. evaluations' = [evaluations EXCEPT ![r.id] = new] /\ evaluations'[r.id] = new
  BY <1>3, <1>5, <1>6 DEF CommitEvaluationUpdated
<1> HIDE DEF r, old
<1>8. new \in Store!Evaluation
  <2>1. /\ old.application_id \in AppIds /\ old.environment \in Environments
        /\ old.application_version_id \in VersionIds /\ old.requested_at \in Times
        /\ old.row_version \in Nat \ {0}
    BY <1>5 DEF Store!Evaluation, Store!RowVersion
  <2>2. /\ new.application_id = old.application_id /\ new.environment = old.environment
        /\ new.application_version_id = old.application_version_id
        /\ new.requested_at = old.requested_at /\ new.status = r.status
        /\ new.job_run_id = r.run /\ new.summary = r.summary
        /\ new.row_version = old.row_version + 1
    BY <1>5, <1>6 DEF Store!Evaluation
  <2>3. new = [application_id |-> new.application_id, environment |-> new.environment,
               application_version_id |-> new.application_version_id,
               requested_at |-> new.requested_at, status |-> new.status,
               job_run_id |-> new.job_run_id, summary |-> new.summary,
               row_version |-> new.row_version]
    BY <1>5, <1>6 DEF Store!Evaluation
  <2> QED
    BY <1>4, <2>1, <2>2, <2>3 DEF Store!Evaluation, Store!RowVersion
<1>9. /\ ActiveEvaluationKey(new) = ActiveEvaluationKey(old) /\ new.status = r.status
  BY <1>5, <1>6 DEF ActiveEvaluationKey, Store!Evaluation
<1>10. new.status \in Store!ActiveEvaluation => old.status \in Store!ActiveEvaluation
  BY <1>2, <1>3, <1>9 DEF Permitted, EvaluationMove, Store!ActiveEvaluation
<1> QED
  BY <1>3, <1>5, <1>6, <1>7, <1>8, <1>9, <1>10 DEF r, old

\* An updated evaluation was read by nobody else for update, and frees an active key at most.
LEMMA EvaluationUpdatedKeeps ==
    ASSUME Locked, NEW t \in Threads, CommitEvaluationUpdated(t)
    PROVE  Locked'
<1> DEFINE r == txn[t].request
<1>1. /\ Commit(t, {"update_evaluation"})
      /\ applications' = applications /\ versions' = versions /\ promotions' = promotions
      /\ applied' = applied /\ instance' = instance
  BY DEF CommitEvaluationUpdated, registry
<1>2. TxnOK /\ r.op = "update_evaluation" /\ txn[t] # Idle /\ txn[t].at = 3
  BY <1>1, CommitFacts DEF Last, Creations
<1>3. PICK id, new :
          /\ id = r.id /\ id \in DOMAIN evaluations
          /\ evaluations' = [evaluations EXCEPT ![id] = new]
          /\ new \in Store!Evaluation
          /\ ActiveEvaluationKey(new) = ActiveEvaluationKey(evaluations[id])
          /\ new.status \in Store!ActiveEvaluation
                 => evaluations[id].status \in Store!ActiveEvaluation
  BY UpdatedEvaluationRow
<1>4. /\ DOMAIN evaluations' = DOMAIN evaluations
      /\ \A e \in DOMAIN evaluations : evaluations'[e] = IF e = id THEN new ELSE evaluations[e]
      /\ evaluations' \in [DOMAIN evaluations' -> Store!Evaluation]
  BY <1>3 DEF Locked, TypeOK, TablesOK
<1>5. TablesOK'
  BY <1>1, <1>4 DEF Locked, TypeOK, TablesOK
<1>6. VersionsOK' /\ AppliedOK'
  BY <1>1 DEF Locked, VersionsOK, AppliedOK, Current, EvidenceOf, PointerOf
<1>7. ASSUME NEW u \in Threads \ {t}, txn[u] # Idle, txn'[u] = txn[u]
      PROVE  Knows(u)'
  <2>0. PICK x : x = txn[u]
    OBVIOUS
  <2> DEFINE s == x.request
  <2>1. /\ Knows(u) /\ x.at \in 1 .. Last(s.op)
        /\ s.op \in {"register", "migrate"} \cup Creations \cup Updates
    BY <1>2, <1>7, <2>0, AtNumbers DEF Locked
  <2>2. s.op = "update_evaluation" /\ x.at > 1 => id # s.id
    BY <1>2, <1>3, <1>7, <2>0, Apart
  <2>3. CASE s.op \notin {"create_evaluation", "update_evaluation"}
    <3>1. RowsOf(s)' = RowsOf(s)
      BY <1>1, <2>3 DEF RowsOf
    <3> QED
      BY <1>1, <1>2, <1>7, <2>0, <2>1, <3>1, OtherTable
  <2>4. CASE s.op = "create_evaluation"
    <3>1. CreationKnows(x)
      BY <2>0, <2>1, <2>4 DEF Knows, Creations
    <3>2. DOMAIN RowsOf(s)' = DOMAIN RowsOf(s)
      BY <1>4, <2>4 DEF RowsOf
    <3>3. VersionStored(s) => VersionStored(s)'
      BY <1>1 DEF VersionStored, PointerOf
    <3>4. NothingActive(s) => NothingActive(s)'
      BY <1>3, <1>4, <2>4 DEF NothingActive, ActiveEvaluationKey
    <3>5. CreationKnows(x)'
      BY <3>1, <3>2, <3>3, <3>4 DEF CreationKnows
    <3> QED
      BY <1>7, <2>0, <2>4, <3>5 DEF Knows, Creations, Updates
  <2>5. CASE s.op = "update_evaluation"
    <3>1. UpdateKnows(x)
      BY <2>0, <2>1, <2>5 DEF Knows, Updates
    <3>2. UpdateKnows(x)'
      BY <1>4, <2>2, <2>5, <3>1 DEF UpdateKnows, RowsOf, Permitted
    <3> QED
      BY <1>7, <2>0, <2>5, <3>2 DEF Knows, Creations, Updates
  <2> QED
    BY <2>3, <2>4, <2>5
<1>8. instance' = [i \in Instances |-> instance'[i]]
  BY <1>1 DEF Locked, TypeOK
<1> QED
  BY <1>1, <1>5, <1>6, <1>7, <1>8, CommitKeeps

\* What an update or a review of a promotion stores.
LEMMA UpdatedPromotionRow ==
    ASSUME Locked, NEW t \in Threads, CommitPromotionUpdated(t)
    PROVE  LET r == txn[t].request
               old == promotions[r.id]
               new == promotions'[r.id]
           IN  /\ r.id \in DOMAIN promotions
               /\ promotions' = [promotions EXCEPT ![r.id] = new]
               /\ old \in Store!Promotion /\ new \in Store!Promotion
               /\ new = UpdatedPromotion(r, old)
               /\ ActivePromotionKey(new) = ActivePromotionKey(old)
               /\ new.status = (IF r.op = "approve_promotion" THEN "APPROVED" ELSE r.status)
               /\ Permitted(r, old)
               /\ new.status \in Store!ActivePromotion => old.status \in Store!ActivePromotion
<1> DEFINE r == txn[t].request
           old == promotions[r.id]
           ops == {"approve_promotion", "review_promotion", "update_promotion"}
<1>1. Commit(t, ops)
  BY DEF CommitPromotionUpdated
<1>2. /\ r.op \in ops /\ txn[t].at = 3 /\ Knows(t)
      /\ r \in Requests \cup {Migrate}
  BY <1>1, CommitFacts DEF Last, Creations
<1>3. r.id \in DOMAIN promotions /\ txn[t].row = old /\ Permitted(r, old)
  BY <1>2 DEF Knows, UpdateKnows, RowsOf, Updates
<1>4. /\ r.actor \in Principals
      /\ r.op = "approve_promotion" => r.snapshot \in Store!Snapshot \cup {None}
      /\ r.op = "review_promotion" => r.status \in {"REJECTED", "CHANGES_REQUESTED"}
      /\ r.op = "update_promotion" =>
             /\ r.status \in Store!PromotionStatus /\ r.run \in JobRunIds \cup {None}
             /\ r.reviewer \in Principals \cup {None}
  BY <1>2, RequestKinds DEF Updates
<1>5. old \in Store!Promotion /\ promotions = [p \in DOMAIN promotions |-> promotions[p]]
  BY <1>3 DEF Locked, TypeOK, TablesOK
<1>6. PICK new : new = UpdatedPromotion(r, old)
  OBVIOUS
<1>7. promotions' = [promotions EXCEPT ![r.id] = new] /\ promotions'[r.id] = new
  BY <1>3, <1>5, <1>6 DEF CommitPromotionUpdated
<1> HIDE DEF r, old
<1>8. /\ old.application_id \in AppIds /\ old.source_environment \in Environments
      /\ old.target_environment \in Environments /\ old.application_version_id \in VersionIds
      /\ old.requested_by \in Principals /\ old.readiness_snapshot \in Store!Snapshot
      /\ old.approval_readiness_snapshot \in Store!Snapshot \cup {None}
      /\ old.reviewed_by \in Principals \cup {None}
      /\ old.promotion_job_run_id \in JobRunIds \cup {None}
      /\ old.row_version \in Nat \ {0}
  BY <1>5 DEF Store!Promotion, Store!RowVersion
<1>9. /\ new.application_id = old.application_id
      /\ new.source_environment = old.source_environment
      /\ new.target_environment = old.target_environment
      /\ new.application_version_id = old.application_version_id
      /\ new.requested_by = old.requested_by
      /\ new.readiness_snapshot = old.readiness_snapshot
      /\ new.status = (IF r.op = "approve_promotion" THEN "APPROVED" ELSE r.status)
      /\ new.approval_readiness_snapshot \in Store!Snapshot \cup {None}
      /\ new.reviewed_by \in Principals \cup {None}
      /\ new.promotion_job_run_id \in JobRunIds \cup {None}
      /\ new.row_version = old.row_version + 1
      /\ new = [application_id |-> new.application_id,
                source_environment |-> new.source_environment,
                target_environment |-> new.target_environment,
                application_version_id |-> new.application_version_id,
                requested_by |-> new.requested_by, status |-> new.status,
                readiness_snapshot |-> new.readiness_snapshot,
                approval_readiness_snapshot |-> new.approval_readiness_snapshot,
                reviewed_by |-> new.reviewed_by,
                promotion_job_run_id |-> new.promotion_job_run_id,
                row_version |-> new.row_version]
  <2>1. CASE r.op = "approve_promotion"
    <3>1. new = [old EXCEPT !.status = "APPROVED", !.reviewed_by = r.actor,
                            !.approval_readiness_snapshot = Readiness(r, old),
                            !.row_version = @ + 1]
      BY <1>6, <2>1 DEF UpdatedPromotion
    <3>2. Readiness(r, old) \in Store!Snapshot
      BY <1>4, <1>8, <2>1 DEF Readiness
    <3> QED
      BY <1>4, <1>5, <1>8, <2>1, <3>1, <3>2 DEF Store!Promotion
  <2>2. CASE r.op = "review_promotion"
    <3>1. new = [old EXCEPT !.status = r.status, !.reviewed_by = r.actor, !.row_version = @ + 1]
      BY <1>6, <2>2 DEF UpdatedPromotion
    <3> QED
      BY <1>4, <1>5, <1>8, <2>2, <3>1 DEF Store!Promotion
  <2>3. CASE r.op = "update_promotion"
    <3>1. new = [old EXCEPT !.status = r.status, !.promotion_job_run_id = r.run,
                            !.reviewed_by = r.reviewer, !.row_version = @ + 1]
      BY <1>6, <2>3 DEF UpdatedPromotion
    <3> QED
      BY <1>4, <1>5, <1>8, <2>3, <3>1 DEF Store!Promotion
  <2> QED
    BY <1>2, <2>1, <2>2, <2>3
<1>10. new.status \in Store!PromotionStatus
  BY <1>2, <1>4, <1>9 DEF Store!PromotionStatus
<1>11. new \in Store!Promotion
  BY <1>8, <1>9, <1>10 DEF Store!Promotion, Store!RowVersion
<1>12. ActivePromotionKey(new) = ActivePromotionKey(old)
  BY <1>9 DEF ActivePromotionKey
<1>13. new.status \in Store!ActivePromotion => old.status \in Store!ActivePromotion
  <2>1. CASE r.op \in {"approve_promotion", "review_promotion"}
    <3>1. old.status = "PENDING_REVIEW"
      BY <1>3, <2>1 DEF Permitted
    <3> QED
      BY <3>1 DEF Store!ActivePromotion
  <2>2. CASE r.op = "update_promotion"
    <3>1. PromotionMove(old.status, r.status) /\ new.status = r.status
      BY <1>3, <1>9, <2>2 DEF Permitted
    <3> QED
      BY <3>1 DEF PromotionMove, Store!ActivePromotion
  <2> QED
    BY <1>2, <2>1, <2>2
<1>14. new.status = (IF r.op = "approve_promotion" THEN "APPROVED" ELSE r.status)
  BY <1>9
<1> QED
  BY <1>3, <1>5, <1>6, <1>7, <1>11, <1>12, <1>13, <1>14 DEF r, old

\* An updated promotion request, likewise.
LEMMA PromotionUpdatedKeeps ==
    ASSUME Locked, NEW t \in Threads, CommitPromotionUpdated(t)
    PROVE  Locked'
<1> DEFINE r == txn[t].request
<1>1. /\ Commit(t, {"approve_promotion", "review_promotion", "update_promotion"})
      /\ applications' = applications /\ versions' = versions /\ evaluations' = evaluations
      /\ applied' = applied /\ instance' = instance
  BY DEF CommitPromotionUpdated, registry
<1>2. TxnOK /\ r.op \in Updates \ {"update_evaluation"} /\ txn[t] # Idle /\ txn[t].at = 3
  BY <1>1, CommitFacts DEF Last, Creations, Updates
<1>3. PICK id, new :
          /\ id = r.id /\ id \in DOMAIN promotions
          /\ promotions' = [promotions EXCEPT ![id] = new]
          /\ new \in Store!Promotion
          /\ ActivePromotionKey(new) = ActivePromotionKey(promotions[id])
          /\ new.status \in Store!ActivePromotion
                 => promotions[id].status \in Store!ActivePromotion
  BY UpdatedPromotionRow
<1>4. /\ DOMAIN promotions' = DOMAIN promotions
      /\ \A p \in DOMAIN promotions : promotions'[p] = IF p = id THEN new ELSE promotions[p]
      /\ promotions' \in [DOMAIN promotions' -> Store!Promotion]
  BY <1>3 DEF Locked, TypeOK, TablesOK
<1>5. TablesOK'
  BY <1>1, <1>4 DEF Locked, TypeOK, TablesOK
<1>6. VersionsOK' /\ AppliedOK'
  BY <1>1 DEF Locked, VersionsOK, AppliedOK, Current, EvidenceOf, PointerOf
<1>7. ASSUME NEW u \in Threads \ {t}, txn[u] # Idle, txn'[u] = txn[u]
      PROVE  Knows(u)'
  <2>0. PICK x : x = txn[u]
    OBVIOUS
  <2> DEFINE s == x.request
  <2>1. /\ Knows(u) /\ x.at \in 1 .. Last(s.op)
        /\ s.op \in {"register", "migrate"} \cup Creations \cup Updates
    BY <1>2, <1>7, <2>0, AtNumbers DEF Locked
  <2>2. s.op \in Updates \ {"update_evaluation"} /\ x.at > 1 => id # s.id
    BY <1>2, <1>3, <1>7, <2>0, Apart
  <2>3. CASE s.op \notin {"create_promotion"} \cup (Updates \ {"update_evaluation"})
    <3>1. s.op \in Creations \cup Updates => RowsOf(s)' = RowsOf(s)
      BY <1>1, <2>3 DEF RowsOf, Creations, Updates
    <3> QED
      BY <1>1, <1>2, <1>7, <2>0, <2>1, <3>1, OtherTable
  <2>4. CASE s.op = "create_promotion"
    <3>1. CreationKnows(x)
      BY <2>0, <2>1, <2>4 DEF Knows, Creations
    <3>2. DOMAIN RowsOf(s)' = DOMAIN RowsOf(s)
      BY <1>4, <2>4 DEF RowsOf
    <3>3. VersionStored(s) => VersionStored(s)'
      BY <1>1 DEF VersionStored, PointerOf
    <3>4. NothingActive(s) => NothingActive(s)'
      BY <1>3, <1>4, <2>4 DEF NothingActive, ActivePromotionKey
    <3>5. CreationKnows(x)'
      BY <3>1, <3>2, <3>3, <3>4 DEF CreationKnows
    <3> QED
      BY <1>7, <2>0, <2>4, <3>5 DEF Knows, Creations, Updates
  <2>5. CASE s.op \in Updates \ {"update_evaluation"}
    <3>1. UpdateKnows(x)
      BY <2>0, <2>1, <2>5 DEF Knows, Updates
    <3>2. UpdateKnows(x)'
      BY <1>4, <2>2, <2>5, <3>1 DEF UpdateKnows, RowsOf, Permitted, Updates
    <3> QED
      BY <1>7, <2>0, <2>5, <3>2 DEF Knows, Creations, Updates
  <2> QED
    BY <2>3, <2>4, <2>5
<1>8. instance' = [i \in Instances |-> instance'[i]]
  BY <1>1 DEF Locked, TypeOK
<1> QED
  BY <1>1, <1>5, <1>6, <1>7, <1>8, CommitKeeps

\* A migration leaves exactly the migrations of its release, and its instance serving.
LEMMA MigrationKeeps ==
    ASSUME Locked, NEW t \in Threads, CommitMigration(t)
    PROVE  /\ Locked'
           /\ applied' = 1 .. Release[InstanceOf[t]]
           /\ instance' = [instance EXCEPT ![InstanceOf[t]] = "serving"]
<1>1. /\ Commit(t, {"migrate"}) /\ UNCHANGED tables
      /\ applied' = applied \cup 1 .. Release[InstanceOf[t]]
      /\ instance' = [instance EXCEPT ![InstanceOf[t]] = "serving"]
  BY DEF CommitMigration
<1>2. /\ TxnOK /\ txn[t].request.op = "migrate" /\ txn[t] # Idle /\ txn[t].at = 4 /\ Knows(t)
  BY <1>1, CommitFacts DEF Last, Creations
<1>3. applied \subseteq 1 .. Release[InstanceOf[t]]
  BY <1>2 DEF Knows, MigrationKnows
<1>4. applied' = 1 .. Release[InstanceOf[t]]
  BY <1>1, <1>3
<1>5. Release[InstanceOf[t]] \in Nat
  BY InstanceOfAssumption, ReleaseAssumption
<1>6. AppliedOK'
  BY <1>4, <1>5 DEF AppliedOK
<1>7. /\ applications' = applications /\ versions' = versions
      /\ evaluations' = evaluations /\ promotions' = promotions
  BY <1>1 DEF tables, registry
<1>8. TablesOK' /\ VersionsOK'
  BY <1>7 DEF Locked, TypeOK, TablesOK, VersionsOK, Current, EvidenceOf, PointerOf
<1>9. ASSUME NEW u \in Threads \ {t}, txn[u] # Idle, txn'[u] = txn[u]
      PROVE  Knows(u)'
  <2>0. PICK x : x = txn[u]
    OBVIOUS
  <2> DEFINE s == x.request
  <2>1. /\ Knows(u) /\ x.at \in 1 .. Last(s.op)
        /\ s.op \in {"register", "migrate"} \cup Creations \cup Updates
    BY <1>2, <1>9, <2>0, AtNumbers DEF Locked
  <2>2. CASE s.op = "migrate"
    <3>1. ~(x.at > 1)
      BY <1>2, <1>9, <2>0, <2>2, Apart
    <3> QED
      BY <1>9, <2>0, <2>1, <2>2, <3>1 DEF Knows, MigrationKnows, Last, Creations, Updates
  <2>3. CASE s.op = "register"
    <3>1. RegistrationKnows(x)
      BY <2>0, <2>1, <2>3 DEF Knows
    <3>2. RegistrationKnows(x)'
      BY <1>7, <3>1 DEF RegistrationKnows, StoredApplication, RepositoryAllowed, CurrentOf,
                        Current, EvidenceOf, PointerOf
    <3> QED
      BY <1>9, <2>0, <2>3, <3>2 DEF Knows, Creations, Updates
  <2>4. CASE s.op \in Creations
    <3>1. CreationKnows(x)
      BY <2>0, <2>1, <2>4 DEF Knows
    <3>2. CreationKnows(x)'
      BY <1>7, <3>1 DEF CreationKnows, RowsOf, VersionStored, NothingActive, PointerOf,
                        ActiveEvaluationKey, ActivePromotionKey
    <3> QED
      BY <1>9, <2>0, <2>1, <2>4, <3>2, Kinds DEF Knows
  <2>5. CASE s.op \in Updates
    <3>1. UpdateKnows(x)
      BY <2>0, <2>1, <2>5 DEF Knows
    <3>2. UpdateKnows(x)'
      BY <1>7, <3>1 DEF UpdateKnows, RowsOf, Permitted
    <3> QED
      BY <1>9, <2>0, <2>1, <2>5, <3>2, Kinds DEF Knows
  <2> QED
    BY <2>1, <2>2, <2>3, <2>4, <2>5
<1>10. instance' = [i \in Instances |-> instance'[i]]
  BY <1>1 DEF Locked, TypeOK
<1> QED
  BY <1>1, <1>4, <1>6, <1>8, <1>9, <1>10, CommitKeeps

-----------------------------------------------------------------------------
(* The invariant holds *)

\* An empty schema and no transaction.
LEMMA InitLocked ==
    ASSUME Init
    PROVE  Locked
<1>1. /\ DOMAIN applications = {} /\ applications = [a \in {} |-> None]
      /\ DOMAIN versions = {} /\ versions = [v \in {} |-> None]
      /\ DOMAIN evaluations = {} /\ evaluations = [e \in {} |-> None]
      /\ DOMAIN promotions = {} /\ promotions = [p \in {} |-> None]
  BY DEF Init, Store!EmptyDict
<1>2. TablesOK
  BY <1>1 DEF TablesOK
<1>3. VersionsOK
  BY <1>1 DEF VersionsOK, Current
<1>4. AppliedOK
  <2>1. applied = 1 .. 0
    BY DEF Init
  <2> QED
    BY <2>1 DEF AppliedOK
<1>5. \A t \in Threads : txn[t] = Idle
  BY DEF Init
<1>6. TxnOK
  BY <1>5 DEF Init, TxnOK, Shaped, Placed, Idle
<1>7. LocksDisjoint
  BY <1>5 DEF LocksDisjoint, Idle
<1> QED
  BY <1>2, <1>3, <1>4, <1>5, <1>6, <1>7 DEF Locked, TypeOK, Init

\* No step breaks the invariant.
LEMMA NextLocked ==
    ASSUME Locked, [Next]_vars
    PROVE  Locked'
<1>1. CASE UNCHANGED vars
  <2>1. UNCHANGED <<tables, applied, instance, txn>>
    BY <1>1 DEF vars
  <2>2. TxnOK' /\ LocksDisjoint' /\ instance' = [i \in Instances |-> instance'[i]]
    BY <2>1 DEF Locked, TypeOK, TxnOK, Shaped, Placed, LocksDisjoint
  <2> QED
    BY <2>1, <2>2, NothingWritten
<1>2. ASSUME NEW t \in Threads,
             \/ Begin(t) \/ TakeAdvisoryLock(t) \/ SelectIdentifier(t) \/ Abort(t)
             \/ Migration(t) \/ Registration(t) \/ Creation(t) \/ Update(t)
      PROVE  Locked'
  <2>1. CASE Begin(t) \/ TakeAdvisoryLock(t) \/ Abort(t)
    BY <2>1, BeginKeeps, TakeAdvisoryLockKeeps, EndsKeep
  <2>2. CASE SelectIdentifier(t)
    BY <2>2, RegistrationReads, CreationReads
  <2>3. CASE Migration(t)
    BY <2>3, BeginKeeps, SelectAppliedKeeps, EndsKeep, CreateTablesKeeps, MigrationKeeps
       DEF Migration
  <2>4. CASE Registration(t)
    BY <2>4, RegistrationReads, SelectApplicationKeeps, SelectPreviousKeeps, RegistrationKeeps
       DEF Registration
  <2>5. CASE Creation(t)
    BY <2>5, CreationReads, EvaluationCreatedKeeps, PromotionCreatedKeeps DEF Creation
  <2>6. CASE Update(t)
    BY <2>6, SelectRowKeeps, UpdateRowKeeps, EvaluationUpdatedKeeps, PromotionUpdatedKeeps
       DEF Update
  <2> QED
    BY <1>2, <2>1, <2>2, <2>3, <2>4, <2>5, <2>6
<1>3. CASE \E i \in Instances : Restart(i)
  BY <1>3, EndsKeep
<1> QED
  BY <1>1, <1>2, <1>3 DEF Next

\* Whatever the instances, threads and requests do, stop or restart included, the locks
\* of open transactions never overlap, each transaction has the locks of its statement,
\* and what it has read of the tables is still so.
THEOREM AlwaysLocked == Spec => []Locked
<1>1. Init => Locked
  BY InitLocked
<1>2. Locked /\ [Next]_vars => Locked'
  BY NextLocked
<1> QED
  BY <1>1, <1>2, PTL DEF Spec

-----------------------------------------------------------------------------
(* Nothing stale, no collision *)

\* What is read FOR UPDATE is still committed when the transaction writes.
THEOREM NeverStale == Spec => []NothingStale
<1>1. ASSUME Locked
      PROVE  NothingStale
  <2> SUFFICES ASSUME NEW t \in Threads
               PROVE  LET r == txn[t].request
                          registered == At(t) = "commit" /\ r.op = "register"
                          updated == At(t) = "commit" /\ r.op \in Updates
                      IN  /\ (\/ At(t) \in {"write-application", "previous", "insert-version"}
                              \/ registered)
                                 => txn[t].row = StoredApplication(r.row.application_id)
                          /\ (At(t) = "insert-version" \/ registered)
                                 => {txn[t].previous} \ {None} = CurrentOf(r.row)
                          /\ (At(t) = "update" \/ updated)
                                 => txn[t].row = RowsOf(r)[r.id]
    BY DEF NothingStale
  <2>1. CASE txn[t] = Idle
    BY <2>1 DEF At
  <2>2. CASE txn[t] # Idle
    <3> DEFINE r == txn[t].request
    <3>1. TxnOK /\ Knows(t)
      BY <1>1, <2>2 DEF Locked, TypeOK
    <3>2. /\ At(t) \in {"write-application", "previous", "insert-version"}
                 => r.op = "register" /\ txn[t].at \in {5, 6, 7}
          /\ At(t) = "insert-version" => txn[t].at = 7
          /\ At(t) = "update" => r.op \in Updates /\ txn[t].at = 2
          /\ At(t) = "commit" => txn[t].at = Last(r.op)
      BY <2>2, <3>1, AtNumbers
    <3>3. /\ r.op = "register" => Last(r.op) = 8
          /\ r.op \in Updates => Last(r.op) = 3
      BY DEF Last, Updates, Creations
    <3>4. r.op = "register" /\ txn[t].at \in {5, 6, 7, 8}
              => txn[t].row = StoredApplication(r.row.application_id)
      BY <3>1 DEF Knows, RegistrationKnows
    <3>5. r.op = "register" /\ txn[t].at \in {7, 8}
              => {txn[t].previous} \ {None} = CurrentOf(r.row)
      BY <3>1 DEF Knows, RegistrationKnows
    <3>6. r.op \in Updates /\ txn[t].at \in {2, 3} => txn[t].row = RowsOf(r)[r.id]
      BY <3>1 DEF Knows, UpdateKnows
    <3> QED
      BY <3>2, <3>3, <3>4, <3>5, <3>6
  <2> QED
    BY <2>1, <2>2
<1> QED
  BY <1>1, AlwaysLocked, PTL

\* Nobody but t holds an index entry that t is about to add: its guard is t's.
LEMMA EntriesFree ==
    ASSUME Locked, NEW t \in Threads, NEW u \in Threads \ {t}
    PROVE  Inserted(t) \cap (txn[u].exclusive \cup txn[u].shared) = {}
<1> SUFFICES ASSUME NEW l \in Inserted(t), l \in txn[u].exclusive \cup txn[u].shared
             PROVE  FALSE
  OBVIOUS
<1>1. TxnOK /\ txn[t] # Idle
  BY DEF Locked, TypeOK, Inserted, At
<1>2. txn[u] # Idle
  BY DEF Idle
<1>3. /\ l.kind \in EntryKinds
      /\ Guard(l) \in {First(txn[t].request), Second(txn[t].request)}
      /\ txn[t].request.op \notin Updates /\ txn[t].at > 1
  BY <1>1, InsertedGuarded
<1>4. Guard(l) \in txn[t].exclusive
  BY <1>1, <1>3 DEF Locked, Holds
<1>5. l \in txn[u].exclusive
  BY <1>2, <1>3 DEF Locked, Holds, EntryKinds
<1>6. Guard(l) \in txn[u].exclusive
  BY <1>2, <1>3, <1>5 DEF Locked, Holds
<1> QED
  BY <1>4, <1>6 DEF Locked, LocksDisjoint

\* An occupied index entry is the one of a stored row.
LEMMA OccupiedEntries ==
    ASSUME Locked, NEW t \in Threads, NEW l \in Occupied(t)
    PROVE  \/ \E a \in DOMAIN applications : l = Lock("applications_pkey", a)
           \/ \E n \in applied : l = Lock("pg_class", n)
           \/ \E v \in DOMAIN versions :
                 \/ l = Lock("application_versions_pkey", v)
                 \/ l = Lock("uq_evidence", EvidenceOf(versions[v]))
                 \/ /\ l = Lock("uq_current", PointerOf(versions[v]))
                    /\ v \in Current /\ v # txn[t].previous
           \/ \E e \in DOMAIN evaluations :
                 \/ l = Lock("evaluation_runs_pkey", e)
                 \/ /\ l = Lock("uq_active_evaluation", ActiveEvaluationKey(evaluations[e]))
                    /\ evaluations[e].status \in Store!ActiveEvaluation
           \/ \E p \in DOMAIN promotions :
                 \/ l = Lock("promotion_requests_pkey", p)
                 \/ /\ l = Lock("uq_active_promotion", ActivePromotionKey(promotions[p]))
                    /\ promotions[p].status \in Store!ActivePromotion
<1> DEFINE row(v) == [versions[v] EXCEPT !.is_current = @ /\ v # txn[t].previous]
<1>1. \/ l \in {Lock("applications_pkey", a) : a \in DOMAIN applications}
      \/ l \in {Lock("pg_class", n) : n \in applied}
      \/ \E v \in DOMAIN versions : l \in VersionEntries(v, row(v))
      \/ \E e \in DOMAIN evaluations : l \in EvaluationEntries(e, evaluations[e])
      \/ \E p \in DOMAIN promotions : l \in PromotionEntries(p, promotions[p])
  BY Zenon DEF Occupied
<1>2. ASSUME NEW v \in DOMAIN versions, l \in VersionEntries(v, row(v))
      PROVE  \/ l = Lock("application_versions_pkey", v)
             \/ l = Lock("uq_evidence", EvidenceOf(versions[v]))
             \/ /\ l = Lock("uq_current", PointerOf(versions[v]))
                /\ v \in Current /\ v # txn[t].previous
  <2>1. PICK w : w = row(v)
    OBVIOUS
  <2>2. versions[v] \in Store!Version
    BY DEF Locked, TypeOK, TablesOK
  <2>3. /\ EvidenceOf(w) = EvidenceOf(versions[v]) /\ PointerOf(w) = PointerOf(versions[v])
        /\ w.is_current => versions[v].is_current /\ v # txn[t].previous
    BY <2>1, <2>2 DEF EvidenceOf, PointerOf, Store!Version
  <2> QED
    BY <1>2, <2>1, <2>3 DEF VersionEntries, Current
<1>3. \A e \in DOMAIN evaluations : l \in EvaluationEntries(e, evaluations[e]) =>
          \/ l = Lock("evaluation_runs_pkey", e)
          \/ /\ l = Lock("uq_active_evaluation", ActiveEvaluationKey(evaluations[e]))
             /\ evaluations[e].status \in Store!ActiveEvaluation
  BY DEF EvaluationEntries, Store!ActiveEvaluation
<1>4. \A p \in DOMAIN promotions : l \in PromotionEntries(p, promotions[p]) =>
          \/ l = Lock("promotion_requests_pkey", p)
          \/ /\ l = Lock("uq_active_promotion", ActivePromotionKey(promotions[p]))
             /\ promotions[p].status \in Store!ActivePromotion
  BY DEF PromotionEntries, Store!ActivePromotion
<1> QED
  BY <1>1, <1>2, <1>3, <1>4

\* What a transaction is about to add, nobody has committed.
LEMMA NothingCollides ==
    ASSUME Locked, NEW t \in Threads
    PROVE  ~Collides(t)
<1> SUFFICES ASSUME NEW l, l \in Inserted(t), l \in Occupied(t)
             PROVE  FALSE
  BY DEF Collides
<1> DEFINE r == txn[t].request
<1>1. TxnOK /\ txn[t] # Idle
  BY DEF Locked, TypeOK, Inserted, At
<1>2. Knows(t)
  BY <1>1 DEF Locked
<1>3. /\ l.kind = "applications_pkey" => \E a \in DOMAIN applications : l = Lock("applications_pkey", a)
      /\ l.kind = "pg_class" => \E n \in applied : l = Lock("pg_class", n)
      /\ l.kind = "application_versions_pkey" =>
             \E v \in DOMAIN versions : l = Lock("application_versions_pkey", v)
      /\ l.kind = "uq_evidence" =>
             \E v \in DOMAIN versions : l = Lock("uq_evidence", EvidenceOf(versions[v]))
      /\ l.kind = "uq_current" =>
             \E v \in Current : l = Lock("uq_current", PointerOf(versions[v])) /\ v # txn[t].previous
      /\ l.kind = "evaluation_runs_pkey" =>
             \E e \in DOMAIN evaluations : l = Lock("evaluation_runs_pkey", e)
      /\ l.kind = "uq_active_evaluation" =>
             \E e \in DOMAIN evaluations :
                 /\ l = Lock("uq_active_evaluation", ActiveEvaluationKey(evaluations[e]))
                 /\ evaluations[e].status \in Store!ActiveEvaluation
      /\ l.kind = "promotion_requests_pkey" =>
             \E p \in DOMAIN promotions : l = Lock("promotion_requests_pkey", p)
      /\ l.kind = "uq_active_promotion" =>
             \E p \in DOMAIN promotions :
                 /\ l = Lock("uq_active_promotion", ActivePromotionKey(promotions[p]))
                 /\ promotions[p].status \in Store!ActivePromotion
  BY OccupiedEntries, LockFields DEF Current
<1>4. CASE At(t) = "write-application" /\ txn[t].row = None
  <2>1. r.op = "register" /\ txn[t].at = 5
    BY <1>1, <1>4, AtNumbers
  <2>2. None = StoredApplication(r.row.application_id)
    BY <1>2, <1>4, <2>1 DEF Knows, RegistrationKnows
  <2>3. r.row.application_id \notin DOMAIN applications
    BY <2>2, NoneAssumption DEF StoredApplication, Locked, TypeOK, TablesOK
  <2>4. l = Lock("applications_pkey", r.row.application_id)
    BY <1>4 DEF Inserted
  <2> QED
    BY <1>3, <2>3, <2>4, LockFields
<1>5. CASE At(t) = "insert-version"
  <2>1. r.op = "register" /\ txn[t].at = 7
    BY <1>1, <1>5, AtNumbers
  <2>2. /\ \A w \in DOMAIN versions : EvidenceOf(versions[w]) # EvidenceOf(r.row)
        /\ r.id \notin DOMAIN versions
        /\ {txn[t].previous} \ {None} = CurrentOf(r.row)
    BY <1>2, <2>1 DEF Knows, RegistrationKnows
  <2>3. \A v \in Current : PointerOf(versions[v]) = PointerOf(r.row) => v = txn[t].previous
    BY <2>2 DEF CurrentOf
  <2>4. \/ l = Lock("application_versions_pkey", r.id)
        \/ l = Lock("uq_evidence", EvidenceOf(r.row))
        \/ l = Lock("uq_current", PointerOf(r.row))
    BY <1>5 DEF Inserted, VersionEntries
  <2> QED
    BY <1>3, <2>2, <2>3, <2>4, LockFields
<1>6. CASE At(t) = "insert-row"
  <2>1. r.op \in Creations /\ txn[t].at = 5
    BY <1>1, <1>6, AtNumbers
  <2>2. r.id \notin DOMAIN RowsOf(r) /\ NothingActive(r)
    BY <1>2, <2>1 DEF Knows, CreationKnows
  <2>3. CASE r.op = "create_evaluation"
    <3>1. \/ l = Lock("evaluation_runs_pkey", r.id)
          \/ l = Lock("uq_active_evaluation", ActiveEvaluationKey(r.row))
      BY <1>6, <2>3 DEF Inserted, EvaluationEntries
    <3> QED
      BY <1>3, <2>2, <2>3, <3>1, LockFields DEF RowsOf, NothingActive
  <2>4. CASE r.op = "create_promotion"
    <3>1. \/ l = Lock("promotion_requests_pkey", r.id)
          \/ l = Lock("uq_active_promotion", ActivePromotionKey(r.row))
      BY <1>6, <2>4 DEF Inserted, PromotionEntries
    <3> QED
      BY <1>3, <2>2, <2>4, <3>1, LockFields DEF RowsOf, NothingActive
  <2> QED
    BY <2>1, <2>3, <2>4 DEF Creations
<1>7. CASE At(t) = "create-tables"
  <2>1. r.op = "migrate" /\ txn[t].at = 3
    BY <1>1, <1>7, AtNumbers
  <2>2. txn[t].row = applied
    BY <1>2, <2>1 DEF Knows, MigrationKnows
  <2>3. PICK n \in (1 .. Release[InstanceOf[t]]) \ txn[t].row : l = Lock("pg_class", n)
    BY <1>7 DEF Inserted
  <2> QED
    BY <1>3, <2>2, <2>3, LockFields
<1> QED
  BY <1>4, <1>5, <1>6, <1>7 DEF Inserted

\* The unique indexes never decide: an INSERT neither fails on them nor waits for one.
THEOREM InsertsGoThrough == Spec => []InsertsNeverCollide
<1>1. Locked => InsertsNeverCollide
  BY NothingCollides, EntriesFree DEF InsertsNeverCollide
<1> QED
  BY <1>1, AlwaysLocked, PTL

-----------------------------------------------------------------------------
(* No deadlock *)

\* Whoever waits has not come as far as who is waited for.
LEMMA WaitsForFurther ==
    ASSUME Locked, NEW t \in Threads, NEW u \in Threads, WaitsFor(t, u)
    PROVE  /\ txn[t] # Idle /\ txn[u] # Idle
           /\ Rank(txn[t]) < Rank(txn[u])
<1> DEFINE r == txn[t].request
           n == txn[t].at
<1>1. t # u /\ TxnOK
  BY DEF WaitsFor, Locked, TypeOK
<1>2. PICK l \in Exclusive(t) \cup Referenced(t) :
          l \in txn[u].exclusive \/ (l \in Exclusive(t) /\ l \in txn[u].shared)
  BY DEF WaitsFor
<1>3. txn[t] # Idle
  BY <1>2 DEF Exclusive, NextAdvisory, Selected, Inserted, Referenced, At
<1>4. txn[u] # Idle
  BY <1>2 DEF Idle
<1>5. /\ HeldFrom(l.kind) <= Rank(txn[u])
      /\ l \in txn[u].shared => l.kind \in {"application-row", "version-row"}
  BY <1>2, <1>4 DEF Locked, Holds
<1>6. l \notin Inserted(t)
  BY <1>1, <1>2, EntriesFree
<1>7. /\ r.op \in {"register", "migrate"} \cup Creations \cup Updates
      /\ n \in 1 .. Last(r.op) /\ Holds(txn[t])
  BY <1>1, <1>3, AtNumbers DEF Locked
<1>8. /\ n > 1 \/ r.op \in Updates => Rank(txn[t]) = Ranks(r.op)[n]
      /\ n = 1 /\ txn[t].exclusive = {} => Rank(txn[t]) = Ranks(r.op)[n]
      /\ n = 1 /\ txn[t].exclusive # {} => Rank(txn[t]) = 1
  BY <1>7 DEF Rank, Holds
<1>9. Rank(txn[u]) \in Nat
  <2>1. /\ txn[u].request.op \in {"register", "migrate"} \cup Creations \cup Updates
        /\ txn[u].at \in 1 .. Last(txn[u].request.op)
    BY <1>1, <1>4, AtNumbers
  <2>2. Ranks(txn[u].request.op)[txn[u].at] \in 0 .. 5
    BY <2>1, RankNumbers
  <2> QED
    BY <2>2 DEF Rank
<1>10. Rank(txn[t]) < HeldFrom(l.kind)
  <2>1. CASE l \in NextAdvisory(t)
    <3>1. At(t) = "locks"
      BY <2>1 DEF NextAdvisory
    <3>2. n = 1 /\ r.op \notin Updates /\ r.op \in {"register", "migrate"} \cup Creations
      BY <1>1, <1>3, <1>7, <3>1, AtNumbers
    <3>3. \/ txn[t].exclusive = {} /\ l = First(r)
          \/ txn[t].exclusive = {First(r)} /\ l = Second(r)
      BY <1>1, <1>7, <2>1, <3>1, NextLock
    <3>4. HeldFrom(First(r).kind) \in {1, 2} /\ HeldFrom(Second(r).kind) = 2
      BY <3>2, AdvisoryKinds
    <3>5. Ranks(r.op)[n] = 0
      BY <1>7, <3>2, RankNumbers
    <3> QED
      BY <1>8, <3>2, <3>3, <3>4, <3>5
  <2>2. CASE l \in Selected(t)
    <3>1. CASE r.op = "register" /\ n = 4 /\ l.kind = "application-row"
      <4>1. Ranks(r.op)[n] = 2
        BY <1>7, <3>1, RankNumbers
      <4> QED
        BY <1>8, <3>1, <4>1 DEF HeldFrom
    <3>2. CASE r.op = "register" /\ n = 6 /\ l.kind = "version-row"
      <4>1. Ranks(r.op)[n] = 4
        BY <1>7, <3>2, RankNumbers
      <4> QED
        BY <1>8, <3>2, <4>1 DEF HeldFrom
    <3>3. CASE r.op \in Updates /\ n \in {1, 2} /\ l = OwnRow(r)
      <4>1. l.kind \in {"evaluation-row", "promotion-row"}
        BY <3>3, LockFields DEF OwnRow
      <4>2. HeldFrom(l.kind) = 5 /\ l \in txn[u].exclusive
        BY <1>2, <1>5, <4>1 DEF HeldFrom
      <4>3. n # 2
        BY <1>1, <1>7, <3>3, <4>2 DEF Holds, Locked, LocksDisjoint
      <4>4. Ranks(r.op)[n] = 2
        BY <1>7, <3>3, <4>3, RankNumbers
      <4> QED
        BY <1>8, <3>3, <4>2, <4>4
    <3> QED
      BY <1>1, <1>3, <2>2, <3>1, <3>2, <3>3, RowsLocked
  <2>3. CASE l \in Referenced(t)
    <3>1. CASE r.op \in Creations /\ n = 6 /\ l.kind = "application-row"
      <4>1. Ranks(r.op)[n] = 2
        BY <1>7, <3>1, RankNumbers
      <4> QED
        BY <1>8, <3>1, <4>1 DEF HeldFrom
    <3>2. CASE r.op \in Creations /\ n = 7 /\ l.kind = "version-row"
      <4>1. Ranks(r.op)[n] = 3
        BY <1>7, <3>2, RankNumbers
      <4> QED
        BY <1>8, <3>2, <4>1 DEF HeldFrom
    <3> QED
      BY <1>1, <1>3, <2>3, <3>1, <3>2, RowsLocked
  <2> QED
    BY <1>2, <1>6, <2>1, <2>2, <2>3 DEF Exclusive
<1>11. HeldFrom(l.kind) \in Nat /\ Rank(txn[t]) \in Nat
  <2>1. Ranks(r.op)[n] \in 0 .. 5
    BY <1>7, RankNumbers
  <2> QED
    BY <2>1 DEF HeldFrom, Rank
<1> QED
  BY <1>3, <1>4, <1>5, <1>9, <1>10, <1>11

\* Among any transactions, one of those that have come furthest waits for none of them.
THEOREM NeverDeadlocked == Spec => []NoDeadlock
<1>1. ASSUME Locked, NEW S \in (SUBSET Threads) \ {{}}
      PROVE  \E t \in S : \A u \in S : ~WaitsFor(t, u)
  <2>1. \A t \in S : txn[t] # Idle => Rank(txn[t]) \in 0 .. 5
    <3> TAKE t \in S
    <3> HAVE txn[t] # Idle
    <3>1. /\ txn[t].request.op \in {"register", "migrate"} \cup Creations \cup Updates
          /\ txn[t].at \in 1 .. Last(txn[t].request.op)
      BY <1>1, AtNumbers DEF Locked, TypeOK
    <3>2. Ranks(txn[t].request.op)[txn[t].at] \in 0 .. 5
      BY <3>1, RankNumbers
    <3> QED
      BY <3>2 DEF Rank
  <2>2. \A t, u \in S : WaitsFor(t, u) =>
            txn[t] # Idle /\ txn[u] # Idle /\ Rank(txn[t]) < Rank(txn[u])
    BY <1>1, WaitsForFurther
  <2> DEFINE Come(k) == \E t \in S : txn[t] # Idle /\ Rank(txn[t]) = k
  <2>3. ASSUME NEW t \in S, txn[t] # Idle,
               \A u \in S : txn[u] # Idle => Rank(txn[u]) <= Rank(txn[t])
        PROVE  \A u \in S : ~WaitsFor(t, u)
    BY <2>1, <2>2, <2>3
  <2>4. CASE \E t \in S : txn[t] = Idle
    BY <2>2, <2>4
  <2>5. CASE \A t \in S : txn[t] # Idle
    <3>1. \E k \in 0 .. 5 : Come(k) /\ \A m \in 0 .. 5 : m > k => ~Come(m)
      <4>1. \E k \in 0 .. 5 : Come(k)
        BY <1>1, <2>1, <2>5
      <4> HIDE DEF Come
      <4>2. Come(0) \/ Come(1) \/ Come(2) \/ Come(3) \/ Come(4) \/ Come(5)
        BY <4>1
      <4>3. CASE Come(5)
        BY <4>3
      <4>4. CASE ~Come(5) /\ Come(4)
        BY <4>4
      <4>5. CASE ~Come(5) /\ ~Come(4) /\ Come(3)
        BY <4>5
      <4>6. CASE ~Come(5) /\ ~Come(4) /\ ~Come(3) /\ Come(2)
        BY <4>6
      <4>7. CASE ~Come(5) /\ ~Come(4) /\ ~Come(3) /\ ~Come(2) /\ Come(1)
        BY <4>7
      <4>8. CASE ~Come(5) /\ ~Come(4) /\ ~Come(3) /\ ~Come(2) /\ ~Come(1) /\ Come(0)
        BY <4>8
      <4> QED
        BY <4>2, <4>3, <4>4, <4>5, <4>6, <4>7, <4>8
    <3>2. PICK k \in 0 .. 5 : Come(k) /\ \A m \in 0 .. 5 : m > k => ~Come(m)
      BY <3>1
    <3>3. PICK t \in S : txn[t] # Idle /\ Rank(txn[t]) = k
      BY <3>2
    <3>4. \A u \in S : Rank(txn[u]) <= k
      BY <2>1, <2>5, <3>2
    <3> QED
      BY <2>3, <3>3, <3>4
  <2> QED
    BY <2>4, <2>5
<1>2. Locked => NoDeadlock
  BY <1>1 DEF NoDeadlock
<1> QED
  BY <1>2, AlwaysLocked, PTL

-----------------------------------------------------------------------------
(* The schema *)

\* An instance starts to serve in a step after which exactly the migrations of its
\* release are committed, and the schema is never left with a gap.
THEOREM OwnSchemaServed == Spec => ServesOwnSchema
<1>1. ASSUME Locked, [Next]_vars
      PROVE  [/\ applied' = 1 .. Cardinality(applied')
              /\ \A i \in Instances :
                     (instance[i] # "serving" /\ instance'[i] = "serving")
                         => applied' = 1 .. Release[i]]_vars
  <2>1. applied' = 1 .. Cardinality(applied')
    <3>1. AppliedOK'
      BY <1>1, NextLocked DEF Locked
    <3>2. PICK n \in Nat : applied' = 1 .. n
      BY <3>1 DEF AppliedOK
    <3>3. Cardinality(1 .. n) = n
      BY <3>2, FS_Interval
    <3> QED
      BY <3>2, <3>3
  <2>2. ASSUME NEW i \in Instances, instance[i] # "serving", instance'[i] = "serving"
        PROVE  applied' = 1 .. Release[i]
    <3>1. instance = [j \in Instances |-> instance[j]]
      BY <1>1 DEF Locked, TypeOK
    <3>2. CASE \E t \in Threads : CommitMigration(t)
      <4>1. PICK t \in Threads : CommitMigration(t)
        BY <3>2
      <4>2. /\ applied' = 1 .. Release[InstanceOf[t]]
            /\ instance' = [instance EXCEPT ![InstanceOf[t]] = "serving"]
        BY <1>1, <4>1, MigrationKeeps
      <4>3. i = InstanceOf[t]
        BY <2>2, <3>1, <4>2
      <4> QED
        BY <4>2, <4>3
    <3>3. CASE \E t \in Threads : RefuseSchema(t)
      BY <2>2, <3>1, <3>3 DEF RefuseSchema
    <3>4. CASE \E j \in Instances : Restart(j)
      BY <2>2, <3>1, <3>4 DEF Restart
    <3>5. CASE instance' = instance
      BY <2>2, <3>5
    <3>6. \/ \E t \in Threads : CommitMigration(t) \/ RefuseSchema(t)
          \/ \E j \in Instances : Restart(j)
          \/ instance' = instance
      BY ZenonT(40), <1>1
         DEF Next, vars, Begin, BeginMigration, Open, TakeAdvisoryLock, SelectIdentifier,
                  Abort, Migration, SelectApplied, CreateTables, Registration, SelectReplay,
                  SelectApplication, WriteApplication, SelectPrevious, InsertVersion,
                  CommitRegistration, Creation, ValidateVersion, SelectDuplicate, InsertRow,
                  CheckReferences, CommitEvaluationCreated, CommitPromotionCreated, Update,
                  SelectRow, UpdateRow, CommitEvaluationUpdated, CommitPromotionUpdated, Execute
    <3> QED
      BY <3>2, <3>3, <3>4, <3>5, <3>6
  <2> QED
    BY <2>1, <2>2
<1> QED
  BY <1>1, AlwaysLocked, PTL DEF Spec, ServesOwnSchema

-----------------------------------------------------------------------------
(* Each commit is one operation of the store *)

\* What Python keeps in two dictionaries, the unique indexes tell.
Indexed ==
    /\ DOMAIN EvidenceIndex = {EvidenceOf(versions[v]) : v \in DOMAIN versions}
    /\ \A v \in DOMAIN versions : EvidenceIndex[EvidenceOf(versions[v])] = v
    /\ EvidenceIndex = [k \in DOMAIN EvidenceIndex |-> EvidenceIndex[k]]
    /\ DOMAIN CurrentIndex = {PointerOf(versions[v]) : v \in Current}
    /\ \A v \in Current : CurrentIndex[PointerOf(versions[v])] = v
    /\ CurrentIndex = [k \in DOMAIN CurrentIndex |-> CurrentIndex[k]]

\* Each unique index is a dictionary from the keys of the rows to their identifiers.
LEMMA UniqueIndexes == VersionsOK => Indexed
<1> SUFFICES ASSUME VersionsOK
             PROVE  Indexed
  OBVIOUS
<1>1. /\ DOMAIN EvidenceIndex = {EvidenceOf(versions[v]) : v \in DOMAIN versions}
      /\ EvidenceIndex = [k \in DOMAIN EvidenceIndex |-> EvidenceIndex[k]]
      /\ DOMAIN CurrentIndex = {PointerOf(versions[v]) : v \in Current}
      /\ CurrentIndex = [k \in DOMAIN CurrentIndex |-> CurrentIndex[k]]
  BY DEF EvidenceIndex, CurrentIndex
<1>2. ASSUME NEW v \in DOMAIN versions
      PROVE  EvidenceIndex[EvidenceOf(versions[v])] = v
  <2> DEFINE k == EvidenceOf(versions[v])
             w == CHOOSE w \in DOMAIN versions : EvidenceOf(versions[w]) = k
  <2>1. EvidenceIndex[k] = w
    BY DEF EvidenceIndex
  <2>2. w \in DOMAIN versions /\ EvidenceOf(versions[w]) = k
    OBVIOUS
  <2> HIDE DEF w
  <2> QED
    BY <2>1, <2>2 DEF VersionsOK
<1>3. ASSUME NEW v \in Current
      PROVE  CurrentIndex[PointerOf(versions[v])] = v
  <2> DEFINE k == PointerOf(versions[v])
             w == CHOOSE w \in Current : PointerOf(versions[w]) = k
  <2>1. CurrentIndex[k] = w
    BY DEF CurrentIndex
  <2>2. w \in Current /\ PointerOf(versions[w]) = k
    OBVIOUS
  <2> HIDE DEF w
  <2> QED
    BY <2>1, <2>2 DEF VersionsOK
<1> QED
  BY <1>1, <1>2, <1>3 DEF Indexed

\* The indexes, before and after a step.
LEMMA IndexesBoth ==
    ASSUME Locked, Locked'
    PROVE  Indexed /\ Indexed'
<1>1. VersionsOK /\ VersionsOK'
  BY DEF Locked
<1>2. VersionsOK' => Indexed'
  BY UniqueIndexes, PTL
<1> QED
  BY <1>1, <1>2, UniqueIndexes

\* While no version changes, neither do the indexes.
LEMMA SameIndexes ==
    ASSUME versions' = versions
    PROVE  EvidenceIndex' = EvidenceIndex /\ CurrentIndex' = CurrentIndex
BY DEF EvidenceIndex, CurrentIndex, Current, EvidenceOf, PointerOf

\* d[k] = v of a stored key.
LEMMA PutStored ==
    ASSUME NEW d, d = [x \in DOMAIN d |-> d[x]], NEW k \in DOMAIN d, NEW v
    PROVE  [d EXCEPT ![k] = v] = Store!Put(d, k, v)
BY DEF Store!Put

\* An empty schema is an empty store.
LEMMA InitImplements ==
    ASSUME Init
    PROVE  Store!Init
<1>1. /\ DOMAIN versions = {} /\ Store!EmptyDict = [k \in {} |-> None]
  BY DEF Init, Store!EmptyDict
<1>2. EvidenceIndex = Store!EmptyDict /\ CurrentIndex = Store!EmptyDict
  BY <1>1 DEF EvidenceIndex, CurrentIndex, Current
<1> QED
  BY <1>2 DEF Init, Store!Init, Store!EmptyDict

\* A registration's commit registers the version in the store.
LEMMA RegistrationImplements ==
    ASSUME Locked, NEW t \in Threads, CommitRegistration(t)
    PROVE  Store!SomeRegistration
<1> DEFINE x == txn[t]
           v == txn[t].request.row
           vid == txn[t].request.id
           previous == txn[t].previous
<1>1. /\ x.request.op = "register" /\ x # Idle /\ x.at = 8 /\ Knows(t)
      /\ x.request \in Requests \cup {Migrate}
  BY SMTT(30), CommitFacts DEF CommitRegistration, Last
<1>2. v \in NewVersion /\ vid \in VersionIds
  BY <1>1, RequestKinds
<1>3. /\ \A w \in DOMAIN versions : EvidenceOf(versions[w]) # EvidenceOf(v)
      /\ vid \notin DOMAIN versions
      /\ x.row = StoredApplication(v.application_id)
      /\ x.row # None => RepositoryAllowed(v)
      /\ {previous} \ {None} = CurrentOf(v)
  BY <1>1 DEF Knows, RegistrationKnows
<1>4. Locked' /\ Indexed /\ Indexed'
  BY RegistrationKeeps, IndexesBoth
<1>5. Store!NewEvidence(vid, v)
  BY <1>3, <1>4 DEF Store!NewEvidence, Store!VersionKey, Indexed, EvidenceOf
<1>6. Store!GitRepositoryAllowed(v)
  <2> DEFINE own == {w \in DOMAIN versions : versions[w].application_id = v.application_id}
  <2>1. CASE x.row = None
    <3>1. v.application_id \notin DOMAIN applications
      BY <1>3, <2>1, NoneAssumption DEF StoredApplication, Locked, TypeOK, TablesOK
    <3>2. own = {}
      BY <3>1 DEF Locked, VersionsOK
    <3> QED
      BY <3>2 DEF Store!GitRepositoryAllowed
  <2>2. CASE x.row # None
    <3>1. {versions[w].git_repository : w \in own} # {} =>
              v.git_repository \in {versions[w].git_repository : w \in own}
      BY <1>3, <2>2 DEF RepositoryAllowed
    <3>2. own = {} \/ \E w \in own : versions[w].git_repository = v.git_repository
      BY <3>1
    <3> QED
      BY <3>2 DEF Store!GitRepositoryAllowed
  <2> QED
    BY <2>1, <2>2
<1>7. applications' = Store!Put(applications, v.application_id, Store!RegisteredApplication(v))
  <2>1. MergedApplication(x.row, v) = Store!RegisteredApplication(v)
    <3>1. v.application_id \in DOMAIN applications => applications[v.application_id] # None
      BY NoneAssumption DEF Locked, TypeOK, TablesOK
    <3> QED
      BY <1>3, <3>1 DEF MergedApplication, StoredApplication, Store!RegisteredApplication
  <2> QED
    BY <2>1 DEF CommitRegistration
<1>8. /\ PointerOf(v) = Store!Pointer(v)
      /\ PointerOf(v) \in DOMAIN CurrentIndex <=> previous # None
      /\ previous # None => CurrentIndex[PointerOf(v)] = previous
  <2>1. PointerOf(v) = Store!Pointer(v)
    BY DEF PointerOf, Store!Pointer
  <2>2. PointerOf(v) \in DOMAIN CurrentIndex <=> CurrentOf(v) # {}
    BY <1>4 DEF Indexed, CurrentOf
  <2>3. \A w \in CurrentOf(v) : CurrentIndex[PointerOf(v)] = w
    BY <1>4 DEF Indexed, CurrentOf
  <2> QED
    BY <1>3, <2>1, <2>2, <2>3
<1>9. Store!PreviousCurrent(v) = previous
  BY <1>8 DEF Store!PreviousCurrent
<1>10. versions' = Store!Put(Store!Demoted(v), vid, [v EXCEPT !.is_current = TRUE])
  BY <1>8 DEF CommitRegistration, Store!Demoted
<1>11. /\ DOMAIN versions' = DOMAIN versions \cup {vid} /\ versions'[vid] = v
       /\ Current' = {w \in Current : PointerOf(versions[w]) # PointerOf(v)} \cup {vid}
  BY RegistrationEffect, Zenon
<1>12. \A w \in DOMAIN versions :
           /\ EvidenceOf(versions'[w]) = EvidenceOf(versions[w])
           /\ PointerOf(versions'[w]) = PointerOf(versions[w])
  BY RegistrationEffect, Zenon
<1> HIDE DEF v, vid, previous
<1>13. EvidenceIndex' = Store!Put(EvidenceIndex, Store!VersionKey(v), vid)
  <2> DEFINE new == EvidenceIndex'
             put == Store!Put(EvidenceIndex, EvidenceOf(v), vid)
  <2>1. /\ DOMAIN new = {EvidenceOf(versions'[w]) : w \in DOMAIN versions'}
        /\ \A w \in DOMAIN versions' : new[EvidenceOf(versions'[w])] = w
        /\ new = [k \in DOMAIN new |-> new[k]]
    BY <1>4 DEF Indexed, EvidenceOf
  <2>2. /\ DOMAIN EvidenceIndex = {EvidenceOf(versions[w]) : w \in DOMAIN versions}
        /\ \A w \in DOMAIN versions : EvidenceIndex[EvidenceOf(versions[w])] = w
    BY <1>4 DEF Indexed
  <2>3. /\ DOMAIN put = DOMAIN EvidenceIndex \cup {EvidenceOf(v)}
        /\ \A k \in DOMAIN put : put[k] = IF k = EvidenceOf(v) THEN vid ELSE EvidenceIndex[k]
        /\ put = [k \in DOMAIN put |-> put[k]]
    BY DEF Store!Put
  <2> HIDE DEF new, put
  <2>4. DOMAIN new = DOMAIN put
    BY <1>11, <1>12, <2>1, <2>2, <2>3
  <2>5. ASSUME NEW k \in DOMAIN put
        PROVE  new[k] = put[k]
    <3>1. CASE k = EvidenceOf(v)
      BY <1>11, <2>1, <2>3, <3>1
    <3>2. CASE k # EvidenceOf(v)
      <4>1. PICK w \in DOMAIN versions : k = EvidenceOf(versions[w])
        BY <2>2, <2>3, <3>2
      <4>2. new[k] = w
        BY <1>11, <1>12, <2>1, <4>1
      <4>3. put[k] = w
        BY <2>2, <2>3, <3>2, <4>1
      <4> QED
        BY <4>2, <4>3
    <3> QED
      BY <3>1, <3>2
  <2>6. new = put
    BY <2>1, <2>3, <2>4, <2>5
  <2> QED
    BY <2>6 DEF new, put, EvidenceOf, Store!VersionKey
<1>14. CurrentIndex' = Store!Put(CurrentIndex, Store!Pointer(v), vid)
  <2> DEFINE new == CurrentIndex'
             put == Store!Put(CurrentIndex, PointerOf(v), vid)
  <2>1. /\ DOMAIN new = {PointerOf(versions'[w]) : w \in Current'}
        /\ \A w \in Current' : new[PointerOf(versions'[w])] = w
        /\ new = [k \in DOMAIN new |-> new[k]]
    BY <1>4 DEF Indexed, PointerOf
  <2>2. /\ DOMAIN CurrentIndex = {PointerOf(versions[w]) : w \in Current}
        /\ \A w \in Current : CurrentIndex[PointerOf(versions[w])] = w
        /\ Current \subseteq DOMAIN versions
    BY <1>4 DEF Indexed, Current
  <2>3. /\ DOMAIN put = DOMAIN CurrentIndex \cup {PointerOf(v)}
        /\ \A k \in DOMAIN put : put[k] = IF k = PointerOf(v) THEN vid ELSE CurrentIndex[k]
        /\ put = [k \in DOMAIN put |-> put[k]]
    BY DEF Store!Put
  <2> HIDE DEF new, put
  <2>4. ASSUME NEW k PROVE k \in DOMAIN new <=> k \in DOMAIN put
    <3>1. k \in DOMAIN new <=> k = PointerOf(v) \/ \E w \in Current :
              PointerOf(versions[w]) # PointerOf(v) /\ k = PointerOf(versions[w])
      BY <1>11, <1>12, <2>1, <2>2
    <3>2. k \in DOMAIN put <=> k = PointerOf(v) \/ \E w \in Current : k = PointerOf(versions[w])
      BY <2>2, <2>3
    <3> QED
      BY <3>1, <3>2
  <2>5. ASSUME NEW k \in DOMAIN put
        PROVE  new[k] = put[k]
    <3>1. CASE k = PointerOf(v)
      BY <1>11, <2>1, <2>3, <3>1
    <3>2. CASE k # PointerOf(v)
      <4>1. PICK w \in Current : k = PointerOf(versions[w])
        BY <2>2, <2>3, <3>2
      <4>2. w \in Current' /\ k = PointerOf(versions'[w])
        BY <1>11, <1>12, <2>2, <3>2, <4>1
      <4>3. new[k] = w
        BY <2>1, <4>2
      <4>4. put[k] = w
        BY <2>2, <2>3, <3>2, <4>1
      <4> QED
        BY <4>3, <4>4
    <3> QED
      BY <3>1, <3>2
  <2>6. DOMAIN new = DOMAIN put
    BY <2>4
  <2>7. new = put
    BY <2>1, <2>3, <2>5, <2>6
  <2> QED
    BY <2>7 DEF new, put, PointerOf, Store!Pointer
<1>15. application_events' =
           [application_events EXCEPT ![v.application_id] =
               Append(@, [environment |-> v.environment,
                          previous_state |-> Store!PreviousCurrent(v), new_state |-> vid])]
  BY <1>9 DEF CommitRegistration, v, vid, previous
<1>16. UNCHANGED <<Store!evaluation_vars, Store!promotion_vars>>
  BY DEF CommitRegistration, Store!evaluation_vars, Store!promotion_vars
<1>17. Store!RegisterApplication(vid, v)
  BY <1>5, <1>6, <1>7, <1>10, <1>13, <1>14, <1>15, <1>16 DEF Store!RegisterApplication
<1>18. /\ v.application_id \in AppIds /\ v.environment \in Environments
       /\ v.evidence \in Evidence /\ v.git_repository \in GitRepositories
       /\ v.registered_at \in Times
       /\ v = [application_id |-> v.application_id, environment |-> v.environment,
               evidence |-> v.evidence, git_repository |-> v.git_repository,
               registered_at |-> v.registered_at, is_current |-> TRUE]
  BY <1>2 DEF NewVersion, Store!Version
<1> QED
  BY <1>2, <1>17, <1>18 DEF Store!SomeRegistration

\* A step that leaves the registry alone leaves its indexes alone.
LEMMA SameRegistry ==
    ASSUME UNCHANGED registry
    PROVE  UNCHANGED Store!registry_vars
<1>1. versions' = versions /\ UNCHANGED <<applications, application_events>>
  BY DEF registry
<1>2. EvidenceIndex' = EvidenceIndex /\ CurrentIndex' = CurrentIndex
  BY <1>1, SameIndexes
<1> QED
  BY <1>1, <1>2 DEF Store!registry_vars

\* The version a creation has read is what the store demands of it.
LEMMA StoredBelongs ==
    ASSUME NEW r, VersionStored(r)
    PROVE  Store!VersionBelongs(r.row.application_id, r.row.application_version_id,
               IF r.op = "create_evaluation" THEN r.row.environment
                                             ELSE r.row.source_environment)
BY DEF VersionStored, PointerOf, Store!VersionBelongs

\* The commit of a new evaluation is the store's create_evaluation.
LEMMA EvaluationCreatedImplements ==
    ASSUME Locked, NEW t \in Threads, CommitEvaluationCreated(t)
    PROVE  Store!SomeEvaluationCreated
<1> DEFINE r == txn[t].request
           e == txn[t].request.row
<1>1. /\ r.op = "create_evaluation" /\ txn[t].at = 8 /\ Knows(t)
      /\ r \in Requests \cup {Migrate}
  BY CommitFacts DEF CommitEvaluationCreated, Last, Creations
<1>2. r.id \in EvaluationIds /\ e \in NewEvaluation
  BY <1>1, RequestKinds
<1>3. r.id \notin DOMAIN evaluations /\ VersionStored(r) /\ NothingActive(r)
  BY <1>1 DEF Knows, CreationKnows, RowsOf, Creations
<1>4. Store!VersionBelongs(e.application_id, e.application_version_id, e.environment)
  BY <1>1, <1>3, StoredBelongs
<1>5. Store!NoActiveEvaluation(e.application_id, e.environment, e.application_version_id)
  BY <1>1, <1>3 DEF NothingActive, ActiveEvaluationKey, Store!NoActiveEvaluation
<1>6. UNCHANGED <<Store!registry_vars, Store!promotion_vars>>
  BY SameRegistry DEF CommitEvaluationCreated, Store!promotion_vars
<1>7. Store!RecordEvaluation(r.id, None, e)
  BY <1>6 DEF CommitEvaluationCreated, Store!RecordEvaluation
<1> HIDE DEF e
<1>8. /\ e.application_id \in AppIds /\ e.environment \in Environments
      /\ e.application_version_id \in VersionIds /\ e.requested_at \in Times
      /\ e = [application_id |-> e.application_id, environment |-> e.environment,
              application_version_id |-> e.application_version_id,
              requested_at |-> e.requested_at, status |-> "REQUESTED",
              job_run_id |-> None, summary |-> None, row_version |-> 1]
  BY <1>2 DEF NewEvaluation, Store!Evaluation
<1>9. Store!CreateEvaluation(r.id, e.application_id, e.environment,
                             e.application_version_id, e.requested_at)
  BY <1>3, <1>4, <1>5, <1>7, <1>8 DEF Store!CreateEvaluation
<1> QED
  BY <1>2, <1>8, <1>9 DEF Store!SomeEvaluationCreated

\* The commit of a new promotion request is the store's create_promotion_request.
LEMMA PromotionCreatedImplements ==
    ASSUME Locked, NEW t \in Threads, CommitPromotionCreated(t)
    PROVE  Store!SomePromotionRequested
<1> DEFINE r == txn[t].request
           p == txn[t].request.row
<1>1. /\ r.op = "create_promotion" /\ txn[t].at = 8 /\ Knows(t)
      /\ r \in Requests \cup {Migrate}
  BY CommitFacts DEF CommitPromotionCreated, Last, Creations
<1>2. r.id \in PromotionIds /\ p \in NewPromotion
  BY <1>1, RequestKinds
<1>3. r.id \notin DOMAIN promotions /\ VersionStored(r) /\ NothingActive(r)
  BY <1>1 DEF Knows, CreationKnows, RowsOf, Creations
<1>4. Store!VersionBelongs(p.application_id, p.application_version_id, p.source_environment)
  BY <1>1, <1>3, StoredBelongs
<1>5. Store!NoActivePromotion(p.application_id, p.application_version_id, p.target_environment)
  BY <1>1, <1>3 DEF NothingActive, ActivePromotionKey, Store!NoActivePromotion
<1>6. UNCHANGED <<Store!registry_vars, Store!evaluation_vars>>
  BY SameRegistry DEF CommitPromotionCreated, Store!evaluation_vars
<1>7. Store!RecordPromotion(r.id, None, p, p.requested_by)
  BY <1>6 DEF CommitPromotionCreated, Store!RecordPromotion, Store!PromotionEventOf
<1> HIDE DEF p
<1>8. /\ p.application_id \in AppIds /\ p.source_environment \in Environments
      /\ p.target_environment \in Environments /\ p.application_version_id \in VersionIds
      /\ p.requested_by \in Principals /\ p.readiness_snapshot \in Store!Snapshot
      /\ p.source_environment # p.target_environment /\ p.readiness_snapshot.ready
      /\ p.readiness_snapshot.application_version_id = p.application_version_id
  BY <1>2 DEF NewPromotion, Store!Promotion
<1>9. p = [application_id |-> p.application_id, source_environment |-> p.source_environment,
           target_environment |-> p.target_environment,
           application_version_id |-> p.application_version_id,
           requested_by |-> p.requested_by, status |-> "PENDING_REVIEW",
           readiness_snapshot |-> p.readiness_snapshot,
           approval_readiness_snapshot |-> None, reviewed_by |-> None,
           promotion_job_run_id |-> None, row_version |-> 1]
  <2>1. /\ p.status = "PENDING_REVIEW" /\ p.row_version = 1
        /\ p.approval_readiness_snapshot = None /\ p.reviewed_by = None
        /\ p.promotion_job_run_id = None
    BY <1>2 DEF NewPromotion
  <2>2. p \in Store!Promotion
    BY <1>2 DEF NewPromotion
  <2> QED
    BY <2>1, <2>2 DEF Store!Promotion
<1>10. Store!CreatePromotionRequest(r.id, p.application_id, p.source_environment,
           p.target_environment, p.application_version_id, p.requested_by,
           p.readiness_snapshot)
  BY <1>3, <1>4, <1>5, <1>7, <1>8, <1>9 DEF Store!CreatePromotionRequest
<1> QED
  BY <1>2, <1>8, <1>10 DEF Store!SomePromotionRequested

\* The commit of an updated evaluation is the store's update_evaluation.
LEMMA EvaluationUpdatedImplements ==
    ASSUME Locked, NEW t \in Threads, CommitEvaluationUpdated(t)
    PROVE  Store!SomeEvaluationUpdated
<1> DEFINE r == txn[t].request
           old == evaluations[r.id]
           new == evaluations'[r.id]
<1>1. /\ r.op = "update_evaluation" /\ txn[t].at = 3 /\ Knows(t)
      /\ r \in Requests \cup {Migrate}
  BY CommitFacts DEF CommitEvaluationUpdated, Last, Creations
<1>2. /\ r.id \in EvaluationIds /\ r.expected \in Expected
      /\ r.status \in Store!EvaluationStatus /\ r.run \in JobRunIds \cup {None}
      /\ r.summary \in Summaries \cup {None}
  BY <1>1, RequestKinds DEF Updates
<1>3. /\ r.id \in DOMAIN evaluations /\ evaluations' = [evaluations EXCEPT ![r.id] = new]
      /\ new = [old EXCEPT !.status = r.status, !.job_run_id = r.run,
                           !.summary = r.summary, !.row_version = @ + 1]
      /\ new.status = r.status /\ Permitted(r, old)
  BY UpdatedEvaluationRow
<1>4. /\ old.row_version = r.expected /\ EvaluationMove(old.status, r.status)
  BY <1>1, <1>3 DEF Permitted
<1>5. txn[t].row = old
  BY <1>1 DEF Knows, UpdateKnows, RowsOf, Updates
<1>6. evaluations = [e \in DOMAIN evaluations |-> evaluations[e]]
  BY DEF Locked, TypeOK, TablesOK
<1>7. evaluations' = Store!Put(evaluations, r.id, new)
  BY <1>3, <1>6, PutStored
<1>8. evaluation_events' = [evaluation_events EXCEPT ![r.id] =
          Append(@, [previous_state |-> old.status, new_state |-> new.status])]
  BY <1>3, <1>5 DEF CommitEvaluationUpdated
<1>9. UNCHANGED <<Store!registry_vars, Store!promotion_vars>>
  BY SameRegistry DEF CommitEvaluationUpdated, Store!promotion_vars
<1>10. Store!EvaluationStep(old.status, r.status)
  BY <1>4 DEF EvaluationMove, Store!EvaluationStep, Store!EvaluationTransitions
<1>11. /\ r.expected \in Store!RowVersions /\ r.expected < MaxRowVersion
       /\ Store!RowVersionMatches(old.row_version, r.expected)
  BY <1>2, <1>4, MaxRowVersionAssumption DEF Expected, Store!RowVersions, Store!RowVersionMatches
<1>12. new = [old EXCEPT !.status = r.status, !.job_run_id = r.run,
                         !.summary = r.summary, !.row_version = r.expected + 1]
  BY <1>3, <1>4
<1> HIDE DEF old, new, r
<1>13. Store!RecordEvaluation(r.id, old.status, new)
  BY <1>7, <1>8, <1>9 DEF Store!RecordEvaluation
<1>14. Store!UpdateEvaluation(r.id, r.expected, r.status, r.run, r.summary)
  BY <1>3, <1>10, <1>11, <1>12, <1>13 DEF Store!UpdateEvaluation, old
<1> QED
  BY <1>2, <1>11, <1>14 DEF Store!SomeEvaluationUpdated

\* The commit of an updated promotion request is the store's operation of the same name.
LEMMA PromotionUpdatedImplements ==
    ASSUME Locked, NEW t \in Threads, CommitPromotionUpdated(t)
    PROVE  Store!SomePromotionApproved \/ Store!SomePromotionReviewed \/ Store!SomePromotionUpdated
<1> DEFINE r == txn[t].request
           old == promotions[r.id]
           new == promotions'[r.id]
           ops == {"approve_promotion", "review_promotion", "update_promotion"}
<1>1. /\ r.op \in ops /\ txn[t].at = 3 /\ Knows(t)
      /\ r \in Requests \cup {Migrate}
  BY CommitFacts DEF CommitPromotionUpdated, Last, Creations
<1>2. /\ r.id \in PromotionIds /\ r.expected \in Expected /\ r.actor \in Principals
      /\ r.op = "approve_promotion" => r.snapshot \in Store!Snapshot \cup {None}
      /\ r.op = "review_promotion" => r.status \in {"REJECTED", "CHANGES_REQUESTED"}
      /\ r.op = "update_promotion" =>
             /\ r.status \in Store!PromotionStatus /\ r.run \in JobRunIds \cup {None}
             /\ r.reviewer \in Principals \cup {None}
  BY <1>1, RequestKinds DEF Updates
<1>3. /\ r.id \in DOMAIN promotions /\ promotions' = [promotions EXCEPT ![r.id] = new]
      /\ new = UpdatedPromotion(r, old) /\ Permitted(r, old)
  BY UpdatedPromotionRow
<1>4. old.row_version = r.expected
  BY <1>3 DEF Permitted
<1>5. txn[t].row = old
  BY <1>1 DEF Knows, UpdateKnows, RowsOf, Updates
<1>6. promotions = [p \in DOMAIN promotions |-> promotions[p]]
  BY DEF Locked, TypeOK, TablesOK
<1>7. promotions' = Store!Put(promotions, r.id, new)
  BY <1>3, <1>6, PutStored
<1>8. promotion_events' = [promotion_events EXCEPT ![r.id] =
          Append(@, Store!PromotionEventOf(old.status, new, r.actor))]
  BY <1>3, <1>5 DEF CommitPromotionUpdated, Store!PromotionEventOf
<1>9. UNCHANGED <<Store!registry_vars, Store!evaluation_vars>>
  BY SameRegistry DEF CommitPromotionUpdated, Store!evaluation_vars
<1>10. /\ r.expected \in Store!RowVersions /\ r.expected < MaxRowVersion
       /\ Store!RowVersionMatches(old.row_version, r.expected)
  BY <1>2, <1>4, MaxRowVersionAssumption DEF Expected, Store!RowVersions, Store!RowVersionMatches
<1> HIDE DEF old, new, r
<1>11. Store!RecordPromotion(r.id, old.status, new, r.actor)
  BY <1>7, <1>8, <1>9 DEF Store!RecordPromotion
<1>12. CASE r.op = "approve_promotion"
  <2>1. /\ r.actor \in Administrators /\ old.status = "PENDING_REVIEW"
        /\ Store!DifferentPrincipals(old.requested_by, r.actor)
        /\ Store!ReadinessPermits(old, Store!ApprovalEvidence(old, r.snapshot))
    BY <1>3, <1>12 DEF Permitted, Readiness, Store!DifferentPrincipals,
                       Store!ReadinessPermits, Store!ApprovalEvidence
  <2>2. new = [old EXCEPT !.status = "APPROVED",
                          !.approval_readiness_snapshot = Store!ApprovalEvidence(old, r.snapshot),
                          !.reviewed_by = r.actor, !.row_version = r.expected + 1]
    <3>1. Readiness(r, old) = Store!ApprovalEvidence(old, r.snapshot)
      BY DEF Readiness, Store!ApprovalEvidence
    <3>2. PICK s : s = Readiness(r, old)
      OBVIOUS
    <3>3. new = [old EXCEPT !.status = "APPROVED", !.reviewed_by = r.actor,
                            !.approval_readiness_snapshot = s,
                            !.row_version = old.row_version + 1]
      BY <1>3, <1>12, <3>2 DEF UpdatedPromotion
    <3>4. new = [old EXCEPT !.status = "APPROVED", !.approval_readiness_snapshot = s,
                            !.reviewed_by = r.actor, !.row_version = r.expected + 1]
      BY <1>4, <3>3
    <3> QED
      BY <3>1, <3>2, <3>4
  <2>3. Store!Reviewable(r.id, r.actor, r.expected)
    BY <1>3, <1>10, <2>1 DEF Store!Reviewable, old
  <2>4. Store!ApprovePromotion(r.id, r.actor, r.expected, r.snapshot)
    BY <1>11, <2>1, <2>2, <2>3 DEF Store!ApprovePromotion, old
  <2> QED
    BY <1>2, <1>10, <1>12, <2>4 DEF Store!SomePromotionApproved
<1>13. CASE r.op = "review_promotion"
  <2>1. r.actor \in Administrators /\ old.status = "PENDING_REVIEW"
    BY <1>3, <1>13 DEF Permitted
  <2>2. new = [old EXCEPT !.status = r.status, !.reviewed_by = r.actor,
                          !.row_version = r.expected + 1]
    BY <1>3, <1>4, <1>13 DEF UpdatedPromotion
  <2>3. Store!Reviewable(r.id, r.actor, r.expected)
    BY <1>3, <1>10, <2>1 DEF Store!Reviewable, old
  <2>4. Store!ReviewPromotion(r.id, r.actor, r.expected, r.status)
    BY <1>2, <1>11, <1>13, <2>2, <2>3 DEF Store!ReviewPromotion, old
  <2>5. r.status \in Store!PromotionStatus
    BY <1>2, <1>13 DEF Store!PromotionStatus
  <2> QED
    BY <1>2, <1>10, <2>4, <2>5 DEF Store!SomePromotionReviewed
<1>14. CASE r.op = "update_promotion"
  <2>1. /\ PromotionMove(old.status, r.status)
        /\ r.status \in Store!NeedsApprovalEvidence => old.approval_readiness_snapshot # None
    BY <1>3, <1>14 DEF Permitted
  <2>2. Store!ExecutionStep(old.status, r.status)
    BY <2>1 DEF PromotionMove, Store!ExecutionStep, Store!ReviewStatus,
                Store!PromotionTransitions
  <2>3. new = [old EXCEPT !.status = r.status, !.promotion_job_run_id = r.run,
                          !.reviewed_by = r.reviewer, !.row_version = r.expected + 1]
    BY <1>3, <1>4, <1>14 DEF UpdatedPromotion
  <2>4. Store!UpdatePromotion(r.id, r.expected, r.status, r.run, r.reviewer, r.actor)
    BY <1>3, <1>10, <1>11, <2>1, <2>2, <2>3 DEF Store!UpdatePromotion, old
  <2> QED
    BY <1>2, <1>10, <1>14, <2>4 DEF Store!SomePromotionUpdated
<1> QED
  BY <1>1, <1>12, <1>13, <1>14

\* Every step is an operation of the store, or none of its business.
LEMMA NextImplements ==
    ASSUME Locked, [Next]_vars
    PROVE  [Store!Next]_Store!store_vars
<1>1. CASE \E t \in Threads :
              \/ CommitRegistration(t) \/ CommitEvaluationCreated(t) \/ CommitPromotionCreated(t)
              \/ CommitEvaluationUpdated(t) \/ CommitPromotionUpdated(t)
  BY <1>1, RegistrationImplements, EvaluationCreatedImplements, PromotionCreatedImplements,
     EvaluationUpdatedImplements, PromotionUpdatedImplements DEF Store!Next
<1>2. CASE UNCHANGED tables
  <2>1. UNCHANGED <<registry, evaluations, evaluation_events, promotions, promotion_events>>
    BY <1>2 DEF tables
  <2>2. UNCHANGED Store!registry_vars
    BY <2>1, SameRegistry
  <2> QED
    BY <2>1, <2>2 DEF Store!store_vars, Store!evaluation_vars, Store!promotion_vars
<1>3. \/ \E t \in Threads :
              \/ CommitRegistration(t) \/ CommitEvaluationCreated(t) \/ CommitPromotionCreated(t)
              \/ CommitEvaluationUpdated(t) \/ CommitPromotionUpdated(t)
      \/ UNCHANGED tables
  BY ZenonT(40) DEF Next, vars, Begin, BeginMigration, Open, TakeAdvisoryLock, SelectIdentifier,
         Abort, Migration, SelectApplied, RefuseSchema, CreateTables, CommitMigration,
         Registration, SelectReplay, SelectApplication, WriteApplication, SelectPrevious,
         InsertVersion, Creation, ValidateVersion, SelectDuplicate, InsertRow,
         CheckReferences, Update, SelectRow, UpdateRow, Execute, Restart
<1> QED
  BY <1>1, <1>2, <1>3

\* Whatever the transactions interleave, the committed tables are a history of the store
\* the service is written against: each commit is one operation of HubRepository on what
\* is committed at that moment, and no other step changes anything the service can see.
THEOREM CommitsImplement == Spec => Implements
<1>1. Init => Store!Init
  BY InitImplements
<1>2. Locked /\ [Next]_vars => [Store!Next]_Store!store_vars
  BY NextImplements
<1> QED
  BY <1>1, <1>2, AlwaysLocked, PTL DEF Spec, Implements, Store!Spec

==============================================================================
