--------------------------- MODULE MCHubLakebase ---------------------------
(* Two App instances of different releases on one schema, one application,  *)
(* and callers that compete for every identifier, evidence and active slot. *)
EXTENDS HubLakebase, TLC

CONSTANTS app, alice, admin, release1, release2, thread1, thread2, green

MCInstanceOf == thread1 :> release1 @@ thread2 :> release2
MCRelease == release1 :> 1 @@ release2 :> 2
MCCasefold == alice :> alice @@ admin :> admin
MCEvidence == {"first commit", "second commit"}
MCVersionIds == {"v1", "v2"}

Registering(vid, evidence) ==
    [op |-> "register", id |-> vid,
     row |-> [application_id |-> app, environment |-> "dev", evidence |-> evidence,
              git_repository |-> "git", registered_at |-> 1, is_current |-> TRUE]]

Evaluating(eid, vid) ==
    [op |-> "create_evaluation", id |-> eid,
     row |-> [application_id |-> app, environment |-> "dev",
              application_version_id |-> vid, requested_at |-> 1,
              status |-> "REQUESTED", job_run_id |-> None, summary |-> None,
              row_version |-> 1]]

Reporting(eid, expected, status) ==
    [op |-> "update_evaluation", id |-> eid, expected |-> expected,
     status |-> status, run |-> None, summary |-> None]

Ready(vid) == [application_version_id |-> vid, ready |-> TRUE, decision |-> green]

Promoting(pid, requester) ==
    [op |-> "create_promotion", id |-> pid,
     row |-> [application_id |-> app, source_environment |-> "dev",
              target_environment |-> "uat", application_version_id |-> "v1",
              requested_by |-> requester, status |-> "PENDING_REVIEW",
              readiness_snapshot |-> Ready("v1"),
              approval_readiness_snapshot |-> None, reviewed_by |-> None,
              promotion_job_run_id |-> None, row_version |-> 1]]

Approving(pid, actor) ==
    [op |-> "approve_promotion", id |-> pid, expected |-> 1, actor |-> actor,
     snapshot |-> None]

Rejecting(pid) ==
    [op |-> "review_promotion", id |-> pid, expected |-> 1, actor |-> admin,
     status |-> "REJECTED"]

\* The requester's cancellation names a reviewer nobody was.
Cancelling(pid) ==
    [op |-> "update_promotion", id |-> pid, expected |-> 1, actor |-> alice,
     status |-> "CANCELLED", run |-> None, reviewer |-> admin]

\* v1 and v2 compete for the first commit, r1 and r2 for the evaluation of v1,
\* p1 and p2 for its promotion, and two updates for each of r1 and p1.
MCRequests ==
    {Registering("v1", "first commit"), Registering("v2", "first commit"),
     Registering("v2", "second commit"),
     Evaluating("r1", "v1"), Evaluating("r2", "v1"),
     Reporting("r1", 1, "SUCCEEDED"), Reporting("r1", 1, "FAILED"),
     Promoting("p1", alice), Promoting("p2", alice),
     Approving("p1", admin), Rejecting("p1"), Cancelling("p1")}

=============================================================================
