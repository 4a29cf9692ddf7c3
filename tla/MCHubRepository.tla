-------------------------- MODULE MCHubRepository --------------------------
(***************************************************************************)
(* HubRepository on a small instance, of which the constraint explores     *)
(* three parts: registrations, evaluations and promotions. The operations  *)
(* on workflows touch each other only through the registered versions.     *)
(***************************************************************************)
EXTENDS HubRepository, TLC

CONSTANTS alice, Alice, bob, app1, g1, d1

\* "Alice" and "alice" are one person; bob is another.
MCCasefold == [p \in Principals |-> IF p = Alice THEN alice ELSE p]

Symmetry == Permutations(Evidence)

-----------------------------------------------------------------------------
(* Bounds on the states that are explored. *)

\* Identifiers, which mean nothing to the store, are used up in order.
InOrder(used, identifiers) ==
    \A i, j \in identifiers : i < j /\ j \in used => i \in used

AllInOrder ==
    /\ InOrder(DOMAIN versions, VersionIds)
    /\ InOrder(DOMAIN evaluations, EvaluationIds)
    /\ InOrder(DOMAIN promotions, PromotionIds)

NoWorkflow == DOMAIN evaluations = {} /\ DOMAIN promotions = {}

\* Workflows are about two versions of one application from one repository, in the
\* order of their registration; which environment comes first makes no difference.
TwoVersions ==
    /\ DOMAIN versions \subseteq {1, 2}
    /\ 1 \in DOMAIN versions => versions[1].environment = "dev"
    /\ \A v \in DOMAIN versions : /\ versions[v].application_id = app1
                                  /\ versions[v].git_repository = g1
                                  /\ versions[v].registered_at = 1

\* ... of which only the first goes beyond its first update,
FirstFarAlong(records) == \A r \in DOMAIN records : records[r].row_version > 2 => r = 1

\* ... of one environment, evaluated,
EvaluationsOnly ==
    /\ DOMAIN promotions = {}
    /\ \A v \in DOMAIN versions : versions[v].environment = "dev"
    /\ \A e \in DOMAIN evaluations : evaluations[e].requested_at = 1
    /\ FirstFarAlong(evaluations)

\* Who updates is not told apart, and an update keeps or clears the reviewer, or names
\* alice, who may not review; alice is named by the first promotion only.
UpdatedAlike(p) ==
    /\ \A i \in 2 .. Len(promotion_events[p]) :
           \/ promotion_events[p][i].new_state \in ReviewStatus
           \/ promotion_events[p][i].actor_principal = alice
    /\ \/ promotions[p].reviewed_by \in IF p = 1 THEN {None, alice} ELSE {None}
       \/ \E i \in DOMAIN promotion_events[p] :
              /\ promotion_events[p][i].new_state \in ReviewStatus
              /\ promotion_events[p][i].actor_principal = promotions[p].reviewed_by

\* Requests are ready for the reason d1; the first may be approved for another.
ApprovedAlike(p) ==
    /\ promotions[p].readiness_snapshot.decision = d1
    /\ p # 1 /\ promotions[p].approval_readiness_snapshot # None =>
           promotions[p].approval_readiness_snapshot.decision = d1

\* ... or with the same evidence, promoted from one environment to the other.
PromotionsOnly ==
    /\ DOMAIN evaluations = {}
    /\ Cardinality({versions[v].evidence : v \in DOMAIN versions}) <= 1
    /\ FirstFarAlong(promotions)
    /\ \A p \in DOMAIN promotions : UpdatedAlike(p) /\ ApprovedAlike(p)

OneWorkflow ==
    /\ AllInOrder
    /\ \/ NoWorkflow
       \/ TwoVersions /\ EvaluationsOnly
       \/ TwoVersions /\ PromotionsOnly
=============================================================================
