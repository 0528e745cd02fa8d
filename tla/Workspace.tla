----------------------------- MODULE Workspace -----------------------------
(***************************************************************************)
(* The local repository: the worktree and the branch of every issue, the   *)
(* main checkout, and the branch on GitHub.  `worktree apply` makes them,  *)
(* `cleanup apply` removes them.  git is external; modelled is how the     *)
(* code uses it.                                                           *)
(***************************************************************************)
EXTENDS Jobs

VARIABLES
  worktree,   \* worktree[i]: none, clean or dirty
  branch,     \* branch[i]: the commits on the local branch of i, 0 without one
  remote,     \* remote[i]: the commits on the branch on GitHub, 0 without one
  checkout    \* the main checkout: clean, dirty, or behind the main branch on GitHub

workspace == <<worktree, branch, remote, checkout>>

Commits == 1..MaxCommits

WorkspaceTypeOK ==
  /\ worktree \in [Issues -> {"none", "clean", "dirty"}]
  /\ branch \in [Issues -> 0..MaxCommits]
  /\ remote \in [Issues -> 0..MaxCommits]
  /\ checkout \in {"clean", "dirty", "behind"}

WorkspaceInit ==
  /\ worktree = [i \in Issues |-> "none"]
  /\ branch = [i \in Issues |-> 0]
  /\ remote = [i \in Issues |-> 0]
  /\ checkout = "clean"

\* The work on i is done by a worker, in a worktree; an issue without routing labels
\* counts as a worker's while it is ready.
WorkerRoute(i, state) ==
  Kind[i] \in {"build", "risky build"} \/ (Kind[i] = "unrouted" /\ state = "state:ready")

(***************************************************************************)
(* worktree apply.                                                         *)
(***************************************************************************)
WorktreeReady(i) ==
  /\ \E state \in Observed(i) \ {"state:done", "state:failed", "state:merged"} :
       WorkerRoute(i, state)
  /\ DependenciesClear(i) \/ <<"view", "fail">> \in Faults
  /\ checkout # "dirty"
  /\ worktree[i] = "none" /\ branch[i] = 0 /\ remote[i] = 0

PlanWorktree(p, i) ==
  /\ MayTake(p, "create worktree")
  /\ WorktreeReady(i)
  /\ Take(p, "create worktree", "add", i)
  /\ IssueWorkflowUnchanged /\ UNCHANGED workspace

\* git worktree add -b: refused when the branch or the path exists by now.  It makes
\* the branch first, and what it fails at after that leaves the branch behind.
AddWorktree(p) ==
  /\ At(p, "create worktree", "add")
  /\ \E i \in job[p].of, outcome \in Outcomes("add") :
       LET free == worktree[i] = "none" /\ branch[i] = 0
           added == free /\ outcome = "ok"
       IN  /\ branch' = IF free /\ outcome # "lost" THEN [branch EXCEPT ![i] = 1] ELSE branch
           /\ worktree' = IF added THEN [worktree EXCEPT ![i] = "clean"] ELSE worktree
           /\ EndJob(p, IF added THEN "applied" ELSE "failed")
  /\ IssueWorkflowUnchanged /\ UNCHANGED <<remote, checkout>>

(***************************************************************************)
(* cleanup apply.                                                          *)
(***************************************************************************)
\* A mutant: the label is enough, whether the issue is closed or not.
LabelledMerged(i) == Shipped(i) /\ "state:merged" \in labels[i]

Integrated(i) == issueState[i] # "open" /\ "state:merged" \in labels[i]

\* What cleanup wants of the pull request and of the issue.
CleanupReady(i) == Shipped(i) /\ Integrated(i)

LeftBehind(i) == worktree[i] # "none" \/ branch[i] # 0

\* The plan is made a second time when the issue is not closed and labelled yet, which
\* is another plan.
PlanCleanup(p, i) ==
  /\ MayTake(p, "cleanup")
  /\ CleanupReady(i) /\ LeftBehind(i)
  /\ Take(p, "cleanup", IF worktree[i] # "none" THEN "remove" ELSE "branch", i)
  /\ IssueWorkflowUnchanged /\ UNCHANGED workspace

\* git worktree remove --force: a dirty worktree goes too.  The branch is only touched
\* after it has succeeded.
RemoveWorktree(p) ==
  /\ At(p, "cleanup", "remove")
  /\ \E i \in job[p].of, outcome \in Outcomes("remove") :
       LET removed == worktree[i] # "none" /\ outcome # "lost"
       IN  /\ worktree' = IF removed THEN [worktree EXCEPT ![i] = "none"] ELSE worktree
           /\ IF removed /\ outcome = "ok" THEN Proceed(p, "branch") ELSE EndJob(p, "failed")
  /\ IssueWorkflowUnchanged /\ UNCHANGED <<branch, remote, checkout>>

\* git branch -D, when the branch still exists: what was never pushed goes with it.  git
\* refuses while the branch is checked out in a worktree.
DeleteBranch(p) ==
  /\ At(p, "cleanup", "branch")
  /\ \E i \in job[p].of, outcome \in Outcomes("branch") :
       LET deleted == branch[i] # 0 /\ worktree[i] = "none" /\ outcome # "lost"
       IN  /\ branch' = IF deleted THEN [branch EXCEPT ![i] = 0] ELSE branch
           /\ EndJob(p, IF branch[i] = 0 \/ (deleted /\ outcome = "ok")
                        THEN "applied" ELSE "failed")
  /\ IssueWorkflowUnchanged /\ UNCHANGED <<worktree, remote, checkout>>

WorkspaceStep(p) ==
  \/ \E i \in Issues : PlanWorktree(p, i) \/ PlanCleanup(p, i)
  \/ AddWorktree(p)
  \/ RemoveWorktree(p)
  \/ DeleteBranch(p)

(***************************************************************************)
(* What people do in the repository, at any time.                          *)
(***************************************************************************)
\* The changes an agent or a person has made in the worktree are committed; the last
\* commit is amended when there are to be no more.
Commit(i) ==
  /\ worktree[i] # "none" /\ (worktree[i] = "dirty" \/ branch[i] < MaxCommits)
  /\ branch' = [branch EXCEPT ![i] = IF @ < MaxCommits THEN @ + 1 ELSE @]
  /\ worktree' = [worktree EXCEPT ![i] = "clean"]
  /\ IssueWorkflowUnchanged /\ UNCHANGED <<jobs, remote, checkout>>

\* The branch is pushed, before or after the pull request is opened.
Push(i) ==
  /\ branch[i] > 1 /\ remote[i] < branch[i] /\ ~Shipped(i)
  /\ remote' = [remote EXCEPT ![i] = branch[i]]
  /\ IssueWorkflowUnchanged /\ UNCHANGED <<jobs, worktree, branch, checkout>>

\* sync plan: only a checkout without changes that is behind, and not ahead as well.
SyncReady == checkout = "behind"

\* sync apply --rebase: the checkout catches up.  Nobody waits for it: the command says
\* that it has failed even when it has not.
Sync ==
  /\ "sync" \in Manual
  /\ SyncReady
  /\ \E outcome \in Outcomes("sync") :
       checkout' = IF outcome = "lost" THEN checkout ELSE "clean"
  /\ IssueWorkflowUnchanged /\ UNCHANGED <<jobs, worktree, branch, remote>>

\* The main checkout is worked in, or falls behind, and is put in order again.
CheckoutChanges ==
  /\ \/ checkout = "clean" /\ \E state \in {"dirty", "behind"} :
          <<"checkout", state>> \in Faults /\ checkout' = state
     \/ checkout # "clean" /\ checkout' = "clean"
  /\ IssueWorkflowUnchanged /\ UNCHANGED <<jobs, worktree, branch, remote>>
=============================================================================
