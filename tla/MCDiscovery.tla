----------------------------- MODULE MCDiscovery -----------------------------
(* TLC instance of Discovery: the mock provider's coverage analysis and the   *)
(* demo question templates as they are in the code.                           *)
EXTENDS Discovery, TLC

MCTemplates == <<"authentication", "authorization", "external_integrations", "failure_behavior",
                 "functional_behavior", "data_model", "security", "acceptance_criteria">>

Entry(score, state, ambiguity, risk) ==
  [score |-> score, state |-> state, ambiguity |-> ambiguity, riskImpact |-> risk]

MCAnalysis ==
  "problem" :> Entry(95, "CLEAR", 10, 40) @@ "target_user" :> Entry(90, "CLEAR", 15, 40)
  @@ "functional_behavior" :> Entry(55, "PARTIAL", 50, 70) @@ "authentication" :> Entry(20, "MISSING", 60, 90)
  @@ "authorization" :> Entry(25, "MISSING", 55, 75) @@ "external_integrations" :> Entry(35, "PARTIAL", 50, 65)
  @@ "data_model" :> Entry(60, "PARTIAL", 40, 60) @@ "ux_states" :> Entry(50, "PARTIAL", 45, 35)
  @@ "failure_behavior" :> Entry(30, "MISSING", 55, 60) @@ "acceptance_criteria" :> Entry(45, "PARTIAL", 50, 80)
  @@ "security" :> Entry(30, "MISSING", 60, 85) @@ "non_goals" :> Entry(70, "CLEAR", 20, 20)
  @@ "user_workflow" :> Entry(75, "CLEAR", 25, 40) @@ "performance" :> Entry(70, "PARTIAL", 30, 30)
  @@ "observability" :> Entry(70, "PARTIAL", 30, 30) @@ "constraints" :> Entry(75, "CLEAR", 25, 30)
  @@ "deployment" :> Entry(70, "PARTIAL", 30, 30) @@ "rollback" :> Entry(70, "PARTIAL", 30, 25)
  @@ "privacy_compliance" :> Entry(72, "PARTIAL", 30, 40) @@ "concurrency" :> Entry(70, "PARTIAL", 30, 30)
  @@ "scalability" :> Entry(70, "PARTIAL", 30, 25) @@ "reliability" :> Entry(72, "PARTIAL", 30, 30)

MCMissions == {{"auth", "refactor"}}

CONSTANTS c1, c2
CallSymmetry == Permutations(Slots)
=============================================================================
