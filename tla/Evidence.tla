------------------------------ MODULE Evidence ------------------------------
(***************************************************************************)
(* What the commands consult besides the tracker, and never write          *)
(* themselves: the pull request of an issue and the CI of its merge        *)
(* commit, the summary artifact a worker or reviewer leaves behind, and    *)
(* the summary of a no-op task.  All of it is produced by other parts      *)
(* (merge, GitHub Actions, the execution backends) at any time, so each    *)
(* step here may happen in any state.  Evidence only grows: a verdict that *)
(* is still missing and one that is negative are the same to every guard,  *)
(* and a positive one stays.                                               *)
(***************************************************************************)
EXTENDS GitHubIssues

VARIABLES
  pr,        \* pr[i]: none, open, merged, or green (merged, merge commit's CI passed)
  summary,   \* summary[i]: the latest summary artifact makes the gate of i pass
  noopGate   \* noopGate[i]: the no-op gate summary of i passes

evidence == <<pr, summary, noopGate>>

EvidenceTypeOK ==
  /\ pr \in [Issues -> {"none", "open", "merged", "green"}]
  /\ summary \in [Issues -> BOOLEAN]
  /\ noopGate \in [Issues -> BOOLEAN]

EvidenceInit ==
  /\ pr = [i \in Issues |-> "none"]
  /\ summary = [i \in Issues |-> FALSE]
  /\ noopGate = [i \in Issues |-> FALSE]

\* "merged PR evidence"
Shipped(i) == pr[i] \in {"merged", "green"}

PullRequestAdvances(i) ==
  /\ \/ pr[i] = "none"   /\ pr' = [pr EXCEPT ![i] = "open"]
     \/ pr[i] = "open"   /\ pr' = [pr EXCEPT ![i] = "merged"]
     \/ pr[i] = "merged" /\ pr' = [pr EXCEPT ![i] = "green"]
  /\ UNCHANGED <<tracker, summary, noopGate>>

SummaryPasses(i) ==
  /\ ~summary[i]
  /\ summary' = [summary EXCEPT ![i] = TRUE]
  /\ UNCHANGED <<tracker, pr, noopGate>>

NoopGatePasses(i) ==
  /\ ~noopGate[i]
  /\ noopGate' = [noopGate EXCEPT ![i] = TRUE]
  /\ UNCHANGED <<tracker, pr, summary>>
=============================================================================
