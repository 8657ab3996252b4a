--------------------------- MODULE MCFrontendReactor ---------------------------
(* FrontendReactor for TLC: plans in which every repository is connected to   *)
(* another, and failures do not stop the build, so that most may happen.      *)
EXTENDS FrontendReactor

Connected(edges) == \A i \in Nodes : edges[i] # {} \/ \E j \in Nodes : i \in edges[j]

MCInit ==
  /\ ReactorInit
  /\ plan.jobs = MaxJobs
  /\ ~plan.failFast
  /\ Connected(plan.edges)

MCSpec == MCInit /\ [][ReactorNext]_allVars
=============================================================================
