-------------------------- MODULE MCBatchInference --------------------------
(* Three versions of a source of two documents, and three releases: an      *)
(* exploratory one, one that changes only judgment, and one that changes    *)
(* the prompt.  Two of the jobs were given the same run id.                 *)
EXTENDS BatchInference, TLC

CONSTANTS group

MCRunIdOf == "job1" :> "run1" @@ "job2" :> "run2" @@ "job3" :> "run2"

Doc(text, label) == [text |-> text, label |-> label]

\* k1 is edited, k2 arrives, then k1 is relabelled.
MCSource ==
    <<"k1" :> Doc("t1", "standard") @@ "k2" :> None,
      "k1" :> Doc("t2", "standard") @@ "k2" :> Doc("u1", "standard"),
      "k1" :> Doc("t2", "scan") @@ "k2" :> Doc("u1", "standard")>>

\* An edit that is taken back: the text of version 3 is that of version 1.
RevertedSource ==
    <<"k1" :> Doc("t1", "standard"), "k1" :> Doc("t2", "standard"), "k1" :> Doc("t1", "standard")>>

Declares(sequence, inference, tier, criticality, required, ceiling) ==
    [release_sequence |-> sequence, inference |-> inference, use_tier |-> tier,
     policy |-> "issuer" :> [criticality |-> criticality, required |-> required],
     ceiling |-> ceiling]

MCDeclared ==
    "explore" :> Declares(1, "prompt 1", 3, "low", 50, 2) @@
    "strict" :> Declares(2, "prompt 1", 1, "high", 80, 2) @@
    "reprompt" :> Declares(3, "prompt 2", 2, "medium", 60, 1)

\* The same measurement in every group but `weak', where it is `exception'.
Measuring(spec, v, usual, weak, exception) ==
    LET population == Preflight(v).population
    IN  [spec |-> spec, population |-> population,
         groups |-> "issuer" :> [g \in DOMAIN population \cup {group} |->
            LET i == IF g = weak THEN exception ELSE usual
            IN  "precision" :> i @@ "recall" :> i]]

Good == [lower |-> 85, upper |-> 95, flawless |-> 98]
Straddling == [lower |-> 75, upper |-> 90, flawless |-> 98]
Bad == [lower |-> 40, upper |-> 55, flawless |-> 98]

Estimate(spec, v) ==
    [spec |-> spec, snapshot |-> v, row_count |-> Cardinality(Rows(v)),
     ceiling |-> MCDeclared[spec].ceiling]

With(spec, report, estimated, counted) ==
    [spec |-> spec, report |-> report, estimate |-> Estimate(spec, estimated),
     preflight |-> Preflight(counted)]

Signed(spec, scores, v) == ApproveGate(EvaluateGate(spec, scores, v), "owner")
Forged(r) == [r EXCEPT !.decision = "adopt", !.approved_by = "owner"]

Exploring == {With("explore", None, v, v) : v \in 1 .. 3}
Approved == With("strict", Signed("strict", Measuring("strict", 2, Good, None, Bad), 2), 2, 2)
Reprompting ==
    With("reprompt", EvaluateGate("reprompt", Measuring("reprompt", 1, Good, None, Bad), 1), 1, 1)

\* Evidence that must authorise nothing.
Unsigned ==
    With("strict", EvaluateGate("strict", Measuring("strict", 2, Good, None, Bad), 2), 2, 2)
OldPopulation ==
    With("strict", Signed("strict", Measuring("strict", 2, Good, None, Bad), 3), 3, 3)
WeakStratum ==
    With("strict", Signed("strict", Measuring("strict", 3, Good, "scan", Straddling), 3), 3, 3)
Edited ==
    With("strict", Forged(Signed("strict", Measuring("strict", 3, Good, "scan", Bad), 3)), 3, 3)
OtherEstimate ==
    With("reprompt", EvaluateGate("reprompt", Measuring("reprompt", 2, Good, None, Bad), 2), 1, 2)
TooExpensive ==
    With("reprompt", EvaluateGate("reprompt", Measuring("reprompt", 2, Good, None, Bad), 2), 2, 2)

MCPlans ==
    Exploring \cup {Approved, Reprompting, Unsigned, OldPopulation, WeakStratum, Edited,
                    OtherEstimate, TooExpensive}

\* One release, unchanged, run on each of the three versions.
MCNightlyRunIdOf == "job1" :> "run1" @@ "job2" :> "run2" @@ "job3" :> "run3"

=============================================================================
