------------------------------- MODULE Review -------------------------------
(***************************************************************************)
(* The pull request of an issue: `review execute`, `review submit` and     *)
(* `merge apply`.  The prompt, the summary and the approval of a review    *)
(* belong to the pull request and name no commit, and the call that merges *)
(* takes whatever the head is by then.  GitHub and its checks are external.*)
(***************************************************************************)
EXTENDS Execution

VARIABLES
  passed,         \* passed[i]: the commits of the branch of i whose checks have passed
  reviewPrompt,   \* reviewPrompt[i]: the head the review prompt shows, 0 without a prompt
  opinion,        \* opinion[i]: what the last summary of a review says
  approved,       \* approved[i]: the head that was approved on GitHub, 0 without approval
  merged          \* merged[i]: the head that was merged, 0 before

review == <<passed, reviewPrompt, opinion, approved, merged>>

ReviewTypeOK ==
  /\ passed \in [Issues -> SUBSET Commits]
  /\ reviewPrompt \in [Issues -> 0..MaxCommits]
  /\ opinion \in [Issues -> Verdicts \cup {"none", "failed"}]
  /\ approved \in [Issues -> 0..MaxCommits]
  /\ merged \in [Issues -> 0..MaxCommits]

ReviewInit ==
  /\ passed = [i \in Issues |-> {}]
  /\ reviewPrompt = [i \in Issues |-> 0]
  /\ opinion = [i \in Issues |-> "none"]
  /\ approved = [i \in Issues |-> 0]
  /\ merged = [i \in Issues |-> 0]

\* A mutant: checks are never waited for.
ChecksIgnored(i) == TRUE

\* The checks that count are those of the head.
HeadPasses(i) == remote[i] \in passed[i]

\* An opinion from whenever it was formed; an approving one passes the gate.
OpinionText(verdict) ==
  CASE verdict = "approve" -> Answers
    [] verdict = "changes" -> Answers \ {"approve"}
    [] verdict = "failed"  -> {"failover"}
    [] OTHER -> {}

ReviewGatePasses(i) == OpinionPasses(OpinionText(opinion[i]))

PlanReady(i) == pr[i] = "open" /\ HeadPasses(i)

\* What reviewDecision and the reviews say: somebody who is not the author has approved,
\* and nobody takes that back.  It does not matter which commit it was.
ReviewDecision(i) == IF approved[i] # 0 THEN "approved" ELSE "none"

(***************************************************************************)
(* review execute.                                                         *)
(***************************************************************************)
PlanReview(p, i) ==
  /\ MayTake(p, "review")
  /\ PlanReady(i)
  /\ Take(p, "review", "checks", i)
  /\ IssueWorkflowUnchanged /\ UNCHANGED <<workspace, execution, review>>

\* A prompt that is there is used again.  A new one is only written when the plan, made
\* once more, is still ready; its diff is fetched after that.
WriteReviewPrompt(p) ==
  /\ At(p, "review", "checks")
  /\ \E i \in job[p].of :
       IF reviewPrompt[i] # 0 \/ PlanReady(i)
       THEN /\ reviewPrompt' =
                 IF reviewPrompt[i] = 0 THEN [reviewPrompt EXCEPT ![i] = remote[i]]
                 ELSE reviewPrompt
            /\ Proceed(p, "agent")
       ELSE EndJob(p, "failed") /\ UNCHANGED reviewPrompt
  /\ IssueWorkflowUnchanged
  /\ UNCHANGED <<workspace, execution, passed, opinion, approved, merged>>

\* A reviewer that times out, cannot be started or is not configured leaves a summary,
\* too, in the place of the one that was there.
ReviewOutcomes == Verdicts \cup {"failed"}

RunReviewer(p) ==
  /\ At(p, "review", "agent")
  /\ \E found \in ReviewOutcomes : Finding(p, "summary", found)
  /\ IssueWorkflowUnchanged /\ UNCHANGED <<workspace, execution, review>>

WriteReviewSummary(p) ==
  /\ At(p, "review", "summary")
  /\ \E i \in job[p].of : opinion' = [opinion EXCEPT ![i] = job[p].found]
  /\ Proceed(p, "attempt")
  /\ IssueWorkflowUnchanged
  /\ UNCHANGED <<workspace, execution, passed, reviewPrompt, approved, merged>>

(***************************************************************************)
(* review submit: the gate, then gh pr review --approve.                   *)
(***************************************************************************)
PlanApproval(p, i) ==
  /\ MayTake(p, "approve")
  /\ pr[i] # "none"
  /\ ReviewGatePasses(i)
  /\ Take(p, "approve", "call", i)
  /\ IssueWorkflowUnchanged /\ UNCHANGED <<workspace, execution, review>>

Approve(p) ==
  /\ At(p, "approve", "call")
  /\ \E i \in job[p].of, outcome \in Outcomes("approve") :
       LET called == pr[i] = "open"
       IN  /\ approved' = IF called /\ outcome # "lost" THEN [approved EXCEPT ![i] = remote[i]]
                          ELSE approved
           /\ EndJob(p, IF called /\ outcome = "ok" THEN "applied" ELSE "failed")
  /\ IssueWorkflowUnchanged
  /\ UNCHANGED <<workspace, execution, passed, reviewPrompt, opinion, merged>>

(***************************************************************************)
(* merge apply: the pull request and its reviews are read, then its        *)
(* checks, then the local gate; then gh pr merge --squash --delete-branch. *)
(***************************************************************************)
PlanMerge(p, i) ==
  /\ MayTake(p, "merge")
  /\ pr[i] = "open" /\ ReviewDecision(i) = "approved"
  /\ Take(p, "merge", "checks", i)
  /\ IssueWorkflowUnchanged /\ UNCHANGED <<workspace, execution, review>>

ReadChecks(p) ==
  /\ At(p, "merge", "checks")
  /\ \E i \in job[p].of : IF HeadPasses(i) THEN Proceed(p, "gate") ELSE EndJob(p, "failed")
  /\ IssueWorkflowUnchanged /\ UNCHANGED <<workspace, execution, review>>

ReadReviewGate(p) ==
  /\ At(p, "merge", "gate")
  /\ \E i \in job[p].of :
       IF ReviewGatePasses(i) THEN Proceed(p, "call") ELSE EndJob(p, "failed")
  /\ IssueWorkflowUnchanged /\ UNCHANGED <<workspace, execution, review>>

\* The branch on GitHub goes with the merge; worktree and local branch stay.
Merge(p) ==
  /\ At(p, "merge", "call")
  /\ \E i \in job[p].of, outcome \in Outcomes("merge") :
       LET called == pr[i] = "open"
           done == called /\ outcome # "lost"
       IN  /\ merged' = IF done THEN [merged EXCEPT ![i] = remote[i]] ELSE merged
           /\ remote' = IF done THEN [remote EXCEPT ![i] = 0] ELSE remote
           /\ pr' = IF done THEN [pr EXCEPT ![i] = "merged"] ELSE pr
           /\ EndJob(p, IF called /\ outcome = "ok" THEN "applied" ELSE "failed")
  /\ UNCHANGED <<labels, issueState, summary, noopGate, command, manifest>>
  /\ UNCHANGED <<worktree, branch, checkout, execution>>
  /\ UNCHANGED <<passed, reviewPrompt, opinion, approved>>

ApprovalStep(p) == Approve(p) \/ \E i \in Issues : PlanApproval(p, i)

MergeStep(p) ==
  \/ \E i \in Issues : PlanMerge(p, i)
  \/ ReadChecks(p) \/ ReadReviewGate(p) \/ Merge(p)

ReviewStep(p) ==
  \/ \E i \in Issues : PlanReview(p, i)
  \/ WriteReviewPrompt(p) \/ RunReviewer(p) \/ WriteReviewSummary(p)
  \/ ApprovalStep(p) \/ MergeStep(p)

(***************************************************************************)
(* What happens around them: a person opens the pull request once the      *)
(* branch is on GitHub, and may approve and merge it there; the checks of  *)
(* the head pass, and those of the commit that was merged; `artifact       *)
(* review-summary --apply` writes an opinion by hand.                      *)
(***************************************************************************)
OpenPullRequest(i) ==
  /\ pr[i] = "none" /\ remote[i] > 1
  /\ pr' = [pr EXCEPT ![i] = "open"]
  /\ UNCHANGED <<labels, issueState, summary, noopGate, command, manifest>>
  /\ UNCHANGED <<jobs, workspace, execution, review>>

\* People also approve on GitHub, and merge there, whatever the checks and the reviews
\* say; the branch stays there.
ApproveByHand(i) ==
  /\ pr[i] = "open" /\ approved[i] # remote[i]
  /\ approved' = [approved EXCEPT ![i] = remote[i]]
  /\ IssueWorkflowUnchanged
  /\ UNCHANGED <<jobs, workspace, execution, passed, reviewPrompt, opinion, merged>>

MergeByHand(i) ==
  /\ pr[i] = "open"
  /\ pr' = [pr EXCEPT ![i] = "merged"]
  /\ merged' = [merged EXCEPT ![i] = remote[i]]
  /\ UNCHANGED <<labels, issueState, summary, noopGate, command, manifest>>
  /\ UNCHANGED <<jobs, workspace, execution, passed, reviewPrompt, opinion, approved>>

ChecksPass(i) ==
  /\ pr[i] = "open" /\ ~HeadPasses(i)
  /\ passed' = [passed EXCEPT ![i] = @ \cup {remote[i]}]
  /\ IssueWorkflowUnchanged
  /\ UNCHANGED <<jobs, workspace, execution, reviewPrompt, opinion, approved, merged>>

\* The checks of the head that was merged.
MergedChecks(i) == IF merged[i] \in passed[i] THEN {"success"} ELSE {"pending"}

\* CI comes to a verdict on the branch that was merged into.
MainPasses(i) ==
  /\ pr[i] = "merged"
  /\ \E base \in {"main", "other"}, run \in {"success", "failure", "queued", "none"} :
       IntegrationCi(base, run, MergedChecks(i)) = "pass"
  /\ pr' = [pr EXCEPT ![i] = "green"]
  /\ UNCHANGED <<labels, issueState, summary, noopGate, command, manifest>>
  /\ UNCHANGED <<jobs, workspace, execution, review>>

WriteManualReview(i) ==
  /\ pr[i] # "none"
  /\ \E verdict \in Verdicts :
       opinion[i] # verdict /\ opinion' = [opinion EXCEPT ![i] = verdict]
  /\ IssueWorkflowUnchanged
  /\ UNCHANGED <<jobs, workspace, execution, passed, reviewPrompt, approved, merged>>
=============================================================================
