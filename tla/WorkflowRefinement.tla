------------------------- MODULE WorkflowRefinement -------------------------
(***************************************************************************)
(* One operator at a time, the commands of IssueWorkflow implement the     *)
(* lifecycle of IssueLifecycle: the phase of an issue is its state label.  *)
(***************************************************************************)
EXTENDS IssueWorkflow

PhaseOf(label) ==
  CASE label = "state:ready"  -> "ready"
    [] label = "state:active" -> "active"
    [] label = "state:done"   -> "done"
    [] label = "state:merged" -> "merged"
    [] label = "state:failed" -> "failed"

PhaseFrom(carried) ==
  IF carried \cap StateLabels = {} THEN "new"
  ELSE PhaseOf(CHOOSE s \in carried \cap StateLabels : TRUE)

Phase == [i \in Issues |-> PhaseFrom(labels[i])]

Lifecycle ==
  INSTANCE IssueLifecycle
    WITH Gated <- {i \in Issues : ProposedGate(i) # {}},
         phase <- Phase, closed <- issueState, proven <- summary,
         shipped <- [i \in Issues |-> pr[i] = "green" \/ noopGate[i]]

\* The commands of one operator, interrupted anywhere and failing anywhere,
\* move issues only along the lifecycle.
ImplementsLifecycle == Lifecycle!Spec
=============================================================================
