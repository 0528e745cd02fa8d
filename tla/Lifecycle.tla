----------------------------- MODULE Lifecycle -----------------------------
(***************************************************************************)
(* What Signposter recommends, without changing anything: the next issue   *)
(* (the scheduler) and the next action for an issue (`lifecycle next`).    *)
(* All of it is worked out from what can be seen, again every time.        *)
(***************************************************************************)
EXTENDS Review

(***************************************************************************)
(* Lifecycle.                                                              *)
(***************************************************************************)
\* The prompt and the summary are looked for by name: the summary of a reviewer or a
\* planner has another one.
PromptExists(i) == prompt[i]

\* A mutant: a summary counts only when it is one of a success.
SuccessfulSummaryExists(i) == artifact[i] \in {"good", "manual"} /\ Profile(i) = "worker"

WorkerSummaryExists(i) ==
  artifact[i] = "manual" \/ (artifact[i] # "none" /\ Profile(i) = "worker")

\* The branch is only looked for when a pull request gives its name.
LocalBranchExists(i) == pr[i] # "none" /\ branch[i] # 0

LifecycleIntegrated(i, state) == state = "state:merged" /\ issueState[i] # "open"

\* An issue that was integrated without a pull request needs the gate of its no-op.
NoopEvidence(i) == pr[i] = "none" /\ noopGate[i]

LifecycleComplete(i, state) ==
  /\ LifecycleIntegrated(i, state)
  /\ worktree[i] = "none" /\ ~LocalBranchExists(i)
  /\ Shipped(i) \/ NoopEvidence(i)

\* The preflight looks for the checkout in a directory with the name of the repository
\* on GitHub.  None is there, and what cannot be compared counts as up to date.
LooksBehind == FALSE

\* The first that applies.  The labels preflight is taken to pass.
Proposal(i, state) ==
  CASE LifecycleComplete(i, state) -> "none"
    [] OTHER ->
  CASE checkout = "dirty"  -> "inspect-working-tree"
    [] LooksBehind         -> "sync-rebase"
    [] OTHER ->
  CASE pr[i] = "none" /\ state = "state:done" -> "create-pr"
    [] Shipped(i) /\ state = "state:done" -> "integrate-issue"
    [] LifecycleIntegrated(i, state) /\ (worktree[i] # "none" \/ LocalBranchExists(i)) ->
         "cleanup"
    [] state = "state:ready" ->
         IF worktree[i] = "none" THEN "create-worktree" ELSE "claim-issue"
    [] state = "state:active" ->
         IF WorkerSummaryExists(i) /\ PromptExists(i) THEN "check-gate"
         ELSE IF PromptExists(i) THEN "execute-worker" ELSE "write-prompt"
    [] OTHER ->
  CASE pr[i] = "open" ->
         IF ReviewDecision(i) = "approved" THEN "merge-pr" ELSE "review-pr"
    [] pr[i] # "open" /\ LifecycleIntegrated(i, state) -> "none"
    [] OTHER -> "diagnose"

\* Work on an active issue that is left to a person.
CircuitBreaks(i, action) == action = "execute-worker" /\ CircuitOpen(i)
MalformedArtifact(i) == WorkerSummaryExists(i) /\ ~WorkerArtifactValid(i)
TakenOver(i, action) ==
  /\ action \in {"write-prompt", "execute-worker", "check-gate"}
  /\ CircuitBreaks(i, action) \/ MalformedArtifact(i)

\* It may also be left to a person when an execution has left no summary, of which only
\* one backend leaves a trace, or when it has been active for too long.
MayBeTakenOver(i, action) ==
  /\ action \in {"write-prompt", "execute-worker", "check-gate"}
  /\ ~WorkerSummaryExists(i)
  /\ raw[i] # "none" \/ <<"issue", "stale">> \in Faults

(***************************************************************************)
(* The scheduler, on the open issues in the order of their numbers.        *)
(***************************************************************************)
OpenIssues == {i \in Issues : issueState[i] = "open"}

Schedulable(seen) ==
  {i \in OpenIssues : seen[i] = "state:ready" /\ DependenciesClear(i)}

Earliest(set) == {i \in set : \A j \in set : i <= j}

Single(set) == {i \in set : set = {i}}

\* A ready issue goes before an active one, and an active one before one that is done
\* and whose lifecycle can go on; of these there must be one only.
Selected(seen) ==
  LET active == {i \in OpenIssues : seen[i] = "state:active"}
      tail == {i \in OpenIssues : seen[i] = "state:done" /\
                 Proposal(i, "state:done") \notin
                   {"inspect-working-tree", "sync-rebase", "diagnose"}}
  IN  IF Schedulable(seen) # {} THEN Earliest(Schedulable(seen))
      ELSE IF active # {} THEN Single(active)
      ELSE Single(tail)

\* With a manifest it is the other way round: the active task goes before the next one,
\* and nothing else is resumed.
ManifestSelected(seen) ==
  LET active == {i \in Issues : seen[i] = "state:active"}
  IN  IF active # {} THEN Single(active) ELSE NextTask(seen)
=============================================================================
