---------------------------- MODULE MCHubWorkflow ----------------------------
(***************************************************************************)
(* HubWorkflow on small instances: two requests at a time, of evaluations  *)
(* and of promotions in turn.                                              *)
(***************************************************************************)
EXTENDS HubWorkflow, TLC

CONSTANTS alice, bob

\* Different people; MCHubRepository has the ones who differ in spelling only.
MCCasefold == [p \in Principals |-> p]

\* Nothing tells the members of these sets apart.
Symmetry == Permutations(Threads) \cup Permutations(VersionIds)
            \cup Permutations(Evidence) \cup Permutations(EvaluationIds)
            \cup Permutations(PromotionIds) \cup Permutations(JobRunIds)

\* Here every principal is an administrator, and the environments are alike.
ReviewSymmetry == Symmetry \cup Permutations(Environments)
                  \cup Permutations(Principals) \cup Permutations(ReadyDecisions)

-----------------------------------------------------------------------------
(* Bounds on the states that are explored: evaluations of up to two versions, *)
(* or promotions of one version under changing evidence.  The two meet in the *)
(* registered versions only.                                                  *)

EvaluationsOnly ==
    /\ \A t \in Threads : work[t].at \in {"idle", "create evaluation",
                                          "launch evaluation", "record evaluation"}
    /\ DOMAIN promotions = {}
    /\ \A v \in VersionIds : readiness[v] \notin ReadyDecisions
    /\ Cardinality({versions[v].environment : v \in DOMAIN versions}) <= 1

PromotionsOnly ==
    /\ \A t \in Threads : work[t].at \notin {"create evaluation", "launch evaluation",
                                             "record evaluation"}
    /\ DOMAIN evaluations = {}
    /\ Cardinality(DOMAIN versions) <= 1
    /\ \A v \in VersionIds \ DOMAIN versions : readiness[v] \notin ReadyDecisions

OneWorkflow == EvaluationsOnly \/ PromotionsOnly
=============================================================================
